---------------------------- MODULE Spec2Model ----------------------------
(***************************************************************************)
(* Steel building configurator: the configuration store (useStore.ts),     *)
(* the doors & windows panel, the DraggableDoor drag state machine and the *)
(* visibility gates of the Building scene.                                 *)
(*                                                                         *)
(* Lengths are exact rationals.  Every length is held as an integer number *)
(* of 1/Den feet, with Den chosen so that half feet, hundredths of a foot, *)
(* the per-pixel drag sensitivities and the rises of the roof pitches      *)
(* (x/12) are all whole numbers of units.                                  *)
(***************************************************************************)
EXTENDS Integers, Sequences, FiniteSets, TLC

VARIABLES
    dimensions,     \* store: dimensions {width, length, eaveHeight}
    roof,           \* store: roof {style, pitch, asymmetricOffset, overhangs, ...}
    walls,          \* store: walls {enclosed, wainscotEnabled, wainscotHeight}
    leanToConfigs,  \* store: one LeanToConfig per wall side
    colors,         \* store: colors {roof, wall, trim, wainscot}
    openings,       \* store: ordered collection of Opening records
    ui,             \* store: ui {expandedPanel, viewMode, visibilityMode, ...}
    selectedWall,   \* DoorsWindowsPanel: useState<OpeningWall>('south')
    isDragging,     \* DraggableDoor: useState(false), one per mounted key
    dragStartRef,   \* DraggableDoor: useRef(null), one per mounted key
    pointerCapture, \* pointer id -> key of the opening holding its capture
    now             \* the reading of Date.now()

storeVars == <<dimensions, roof, walls, leanToConfigs, colors, openings, ui>>
dragVars  == <<isDragging, dragStartRef, pointerCapture>>
vars      == <<dimensions, roof, walls, leanToConfigs, colors, openings, ui,
               selectedWall, isDragging, dragStartRef, pointerCapture,
               now>>

---------------------------------------------------------------------------
(* Bounds of the model *)

MaxOpenings == 2
MaxPlaced == 1
MaxClock == 1
NumPointers == 2
ViewportWidth == 4
ViewportHeight == 4

---------------------------------------------------------------------------
(* Units *)

Den == 4800 * ViewportWidth * ViewportHeight
Ft(n) == n * Den
Hundredths(n) == (n * Den) \div 100

Max(a, b) == IF a >= b THEN a ELSE b
Min(a, b) == IF a <= b THEN a ELSE b

Null == <<>>

WallSides == {"north", "south", "east", "west"}
VisibilityModes == {"full", "hide-walls", "hide-roof", "frame-only"}


---------------------------------------------------------------------------
(* DoorsWindowsPanel.tsx: the door table.  defaultWidth is in feet and     *)
(* defaultHeight in hundredths of a foot (6.67 ft is 667).                 *)

DOOR_TYPES ==
    << [type |-> "walk-single",     defaultWidth |-> 3,  defaultHeight |-> 667,  category |-> "door"],
       [type |-> "walk-double",     defaultWidth |-> 6,  defaultHeight |-> 667,  category |-> "door"],
       [type |-> "walk-half-glass", defaultWidth |-> 3,  defaultHeight |-> 667,  category |-> "door"],
       [type |-> "sliding-glass",   defaultWidth |-> 6,  defaultHeight |-> 667,  category |-> "door"],
       [type |-> "dutch-equine",    defaultWidth |-> 4,  defaultHeight |-> 700,  category |-> "door"],
       [type |-> "overhead",        defaultWidth |-> 10, defaultHeight |-> 1000, category |-> "door"],
       [type |-> "overhead-modern", defaultWidth |-> 10, defaultHeight |-> 1000, category |-> "door"],
       [type |-> "overhead-glass",  defaultWidth |-> 10, defaultHeight |-> 1000, category |-> "door"],
       [type |-> "sliding",         defaultWidth |-> 12, defaultHeight |-> 1000, category |-> "door"],
       [type |-> "sliding-left",    defaultWidth |-> 12, defaultHeight |-> 1000, category |-> "door"],
       [type |-> "sliding-right",   defaultWidth |-> 12, defaultHeight |-> 1000, category |-> "door"],
       [type |-> "roll-up",         defaultWidth |-> 10, defaultHeight |-> 1000, category |-> "door"],
       [type |-> "bi-fold",         defaultWidth |-> 12, defaultHeight |-> 1200, category |-> "door"],
       [type |-> "hydraulic",       defaultWidth |-> 14, defaultHeight |-> 1400, category |-> "door"],
       [type |-> "window-slider",   defaultWidth |-> 3,  defaultHeight |-> 200,  category |-> "window"],
       [type |-> "window-hopper",   defaultWidth |-> 3,  defaultHeight |-> 200,  category |-> "window"] >>

\* The quick-add buttons the model presses: the widest door and both
\* windows (3 ft wide, as narrow as the narrowest door).
QuickAddChoices ==
    {k \in 1..Len(DOOR_TYPES) :
        DOOR_TYPES[k].type \in {"hydraulic", "window-slider", "window-hopper"}}

WALL_OPTIONS == <<"south", "north", "east", "west">>

\* the options the model selects in a wall <select>
WallChoices == {WALL_OPTIONS[k] : k \in 1..Len(WALL_OPTIONS)}

\* opening.type.startsWith('window'): of the DoorType union exactly the two
\* window types begin with "window".
isWindow(type) == type \in {"window-slider", "window-hopper"}

---------------------------------------------------------------------------
(* useStore.ts: identifiers and the mutation entry points, as functions of *)
(* the state they replace.                                                 *)

\* `opening-${Date.now()}`
OpeningId(t) == <<"opening", t>>

OpeningIds == {OpeningId(t) : t \in 0..MaxClock}

\* { ...o, ...updates } for the keys an update may carry
Merge(o, updates) ==
    [k \in DOMAIN o |-> IF k \in DOMAIN updates THEN updates[k] ELSE o[k]]

setDimensions(d, dims) == Merge(d, dims)

addOpening(ops, opening) ==
    Append(ops,
           [id |-> OpeningId(now), type |-> opening.type, wall |-> opening.wall,
            position |-> opening.position, width |-> opening.width,
            height |-> opening.height, bottomOffset |-> opening.bottomOffset])

updateOpening(ops, id, updates) ==
    [i \in 1..Len(ops) |->
        IF ops[i].id = id THEN Merge(ops[i], updates) ELSE ops[i]]

removeOpening(ops, id) ==
    SelectSeq(ops, LAMBDA o : o.id # id)

\* a placement mode that leaves the selection as it was
setPlacementModeKeepingSelection(u, mode) ==
    [u EXCEPT !.placementMode = mode]

setPlacementMode(u, mode) ==
    [u EXCEPT !.placementMode = mode, !.selectedOpeningId = Null]

\* a selection that leaves the placement mode as it was
setSelectedOpeningIdKeepingMode(u, id) ==
    [u EXCEPT !.selectedOpeningId = id]

setSelectedOpeningId(u, id) ==
    [u EXCEPT !.selectedOpeningId = id, !.placementMode = "null"]

setIsDraggingDoor(u, flag) ==
    [u EXCEPT !.isDraggingDoor = flag]

setVisibilityMode(u, mode) ==
    [u EXCEPT !.visibilityMode = mode]

setExpandedPanel(u, panel) ==
    [u EXCEPT !.expandedPanel = panel]

setViewMode(u, mode) ==
    [u EXCEPT !.viewMode = mode]

resetView(u) ==
    [u EXCEPT !.viewMode = "exterior", !.visibilityMode = "full"]

---------------------------------------------------------------------------
(* Building: the visibility flags *)

showWalls(mode) == mode = "full"
\* a roof shown in full mode only
showRoofOnlyInFull(mode) == mode = "full"

showRoof(mode) == mode = "full" \/ mode = "hide-walls"
showSecondaryMembers(mode) == mode # "frame-only"

---------------------------------------------------------------------------
(* Wall length of an opening's wall (DoorsWindowsPanel and DraggableDoor   *)
(* carry the same function).                                               *)

getWallLength(dims, wall) ==
    IF wall = "south" \/ wall = "north" THEN dims.width
    ELSE IF wall = "east" \/ wall = "west" THEN dims.length
    ELSE dims.width

maxPosition(dims, o) == Max(0, getWallLength(dims, o.wall) - o.width)


---------------------------------------------------------------------------
(* DraggableDoor: pointer events and the drag arithmetic *)

Pointers == 1..NumPointers

\* Pointer coordinates in pixels: inside the canvas, and far outside it on
\* either side (a captured pointer keeps reporting outside the canvas).
ClientXs == {0, 1, 4 * ViewportWidth}
ClientYs == {0, 1, 4 * ViewportHeight}

PointerEvent(p, x, y) ==
    [pointerId |-> p, clientX |-> x, clientY |-> y,
     nativeEvent |-> [clientX |-> x, clientY |-> y]]

\* a || b || 0 on numbers: 0 is falsy
OrZero(a, b) == IF a # 0 THEN a ELSE IF b # 0 THEN b ELSE 0

eventClientX(e) == OrZero(e.clientX, e.nativeEvent.clientX)
eventClientY(e) == OrZero(e.clientY, e.nativeEvent.clientY)

\* dragStartRef.current as written by handlePointerDown
dragStart(o, e) ==
    [position |-> o.position, bottomOffset |-> o.bottomOffset,
     mouseX |-> eventClientX(e), mouseY |-> eventClientY(e)]

\* deltaX * sensitivityX, sensitivityX = wallLength / size.width * 2
deltaXWorld(dims, o, start, e) ==
    ((eventClientX(e) - start.mouseX) * getWallLength(dims, o.wall) * 2) \div ViewportWidth

\* deltaY * sensitivityY, sensitivityY = 20 / size.height * 2
deltaYWorld(start, e) ==
    ((eventClientY(e) - start.mouseY) * Ft(20) * 2) \div ViewportHeight

\* a clamp that forgets the wall's far end
clampPositionAtZeroOnly(dims, o, newPosition) ==
    Max(0, newPosition)

clampPosition(dims, o, newPosition) ==
    Max(0, Min(maxPosition(dims, o), newPosition))

maxBottomOffset(o) == Max(0, Ft(14) - o.height)

\* a clamp that forgets the ceiling
clampBottomOffsetAtZeroOnly(o, newBottomOffset) ==
    Max(0, newBottomOffset)

clampBottomOffset(o, newBottomOffset) ==
    Max(0, Min(maxBottomOffset(o), newBottomOffset))

\* a drag that follows the pointer the same way on every wall
dragPositionNeverInverted(dims, o, start, e) ==
    clampPosition(dims, o, start.position + deltaXWorld(dims, o, start, e))

\* handlePointerMove: the new horizontal position
dragPosition(dims, o, start, e) ==
    LET unclamped ==
            IF o.wall = "north" \/ o.wall = "west"
            THEN start.position - deltaXWorld(dims, o, start, e)
            ELSE start.position + deltaXWorld(dims, o, start, e)
    IN  clampPosition(dims, o, unclamped)

\* handlePointerMove: the new bottom offset (windows only)
dragBottomOffset(o, start, e) ==
    IF isWindow(o.type)
    THEN clampBottomOffset(o, start.bottomOffset - deltaYWorld(start, e))
    ELSE o.bottomOffset

---------------------------------------------------------------------------
(* Mounting: Building renders one DraggableDoor per opening, keyed by the  *)
(* opening's id, and only while showWalls.  A component that is not        *)
(* rendered has no state; when it is rendered again it starts from         *)
(* useState(false) and useRef(null), and a capture held by an unmounted    *)
(* object is gone.                                                         *)

renderedIds(ops, u) ==
    IF showWalls(u.visibilityMode) THEN {ops[i].id : i \in 1..Len(ops)} ELSE {}

rendered(i) == i \in 1..Len(openings) /\ showWalls(ui.visibilityMode)

Rerender(ops, u) ==
    LET R == renderedIds(ops, u) IN
    /\ isDragging' = [id \in OpeningIds |-> id \in R /\ isDragging[id]]
    /\ dragStartRef' = [id \in OpeningIds |-> IF id \in R THEN dragStartRef[id] ELSE Null]
    /\ pointerCapture' = [p \in Pointers |->
                            IF pointerCapture[p] \in R THEN pointerCapture[p] ELSE Null]

---------------------------------------------------------------------------
Init ==
    /\ dimensions = [width |-> Ft(30), length |-> Ft(40), eaveHeight |-> Ft(10)]
    /\ roof = [style |-> "gable", pitch |-> Ft(4), asymmetricOffset |-> 4,
               overhangs |-> [north |-> 0, south |-> 0, east |-> Ft(1), west |-> Ft(1)],
               ridgeVents |-> 0, cupola2ft |-> 0, cupola3ft |-> 0]
    /\ walls = [enclosed |-> [s \in WallSides |-> TRUE],
                wainscotEnabled |-> FALSE, wainscotHeight |-> Ft(3)]
    /\ leanToConfigs = [s \in WallSides |->
                          [enabled |-> FALSE, drop |-> Ft(1), cutL |-> 0, cutR |-> 0,
                           depth |-> Ft(12), roofPitch |-> Ft(3), walls |-> "full-length"]]
    /\ colors = [roof |-> "#5c4033", wall |-> "#e8e4d9", trim |-> "#5c4033",
                 wainscot |-> "#5c4033"]
    /\ openings = <<>>
    /\ ui = [expandedPanel |-> "dimensions", viewMode |-> "exterior",
             visibilityMode |-> "full", placementMode |-> "null",
             selectedOpeningId |-> Null, isDraggingDoor |-> FALSE]
    /\ selectedWall = "south"
    /\ isDragging = [id \in OpeningIds |-> FALSE]
    /\ dragStartRef = [id \in OpeningIds |-> Null]
    /\ pointerCapture = [p \in Pointers |-> Null]
    /\ now = 0


---------------------------------------------------------------------------
(* DraggableDoor handlers.  The pointer events of one pointer go to the    *)
(* opening that holds its capture, or, uncaptured, to the opening under    *)
(* the pointer; a pointer that is held by a capture cannot go down again.  *)

handlePointerDown(p, i, x, y) ==
    LET o == openings[i]
        e == PointerEvent(p, x, y)
    IN  /\ rendered(i)
        /\ pointerCapture[p] = Null
        /\ isDragging' = [isDragging EXCEPT ![o.id] = TRUE]
        /\ ui' = setSelectedOpeningId(setIsDraggingDoor(ui, TRUE), o.id)
        /\ dragStartRef' = [dragStartRef EXCEPT ![o.id] = <<dragStart(o, e)>>]
        /\ pointerCapture' = [pointerCapture EXCEPT ![e.pointerId] = o.id]
        /\ UNCHANGED <<dimensions, roof, walls, leanToConfigs, openings, selectedWall, colors, now>>

handlePointerMove(p, i, x, y) ==
    LET o == openings[i]
        e == PointerEvent(p, x, y)
    IN  /\ rendered(i)
        /\ pointerCapture[p] \in {Null, o.id}
        /\ IF ~isDragging[o.id] \/ dragStartRef[o.id] = Null
           THEN UNCHANGED openings
           ELSE LET start == dragStartRef[o.id][1] IN
                openings' = updateOpening(openings, o.id,
                                   [position |-> dragPosition(dimensions, o, start, e),
                                    bottomOffset |-> dragBottomOffset(o, start, e)])
        /\ UNCHANGED <<dimensions, roof, walls, leanToConfigs, ui, selectedWall, colors, now>>
        /\ UNCHANGED dragVars

\* handlePointerUp, bound to both onPointerUp and onPointerLeave
pointerUpBody(p, i) ==
    LET o == openings[i]
        e == PointerEvent(p, 0, 0)
    IN  /\ rendered(i)
        /\ pointerCapture[p] \in {Null, o.id}
        /\ isDragging' = [isDragging EXCEPT ![o.id] = FALSE]
        /\ ui' = setIsDraggingDoor(ui, FALSE)
        /\ dragStartRef' = [dragStartRef EXCEPT ![o.id] = Null]
        /\ pointerCapture' = [q \in Pointers |->
                                IF q = e.pointerId /\ pointerCapture[q] = o.id
                                THEN Null ELSE pointerCapture[q]]
        /\ UNCHANGED <<dimensions, roof, walls, leanToConfigs, openings, selectedWall, colors, now>>

handlePointerUp(p, i) == pointerUpBody(p, i)

handlePointerLeave(p, i) == pointerUpBody(p, i)

---------------------------------------------------------------------------
(* DoorsWindowsPanel handlers *)

setSelectedWall(w) ==
    /\ selectedWall' = w
    /\ UNCHANGED storeVars
    /\ UNCHANGED <<dragVars, now>>

\* the opening handleQuickAdd passes to addOpening
\* every quick-added opening standing on the ground
quickAddOpeningOnGround(dims, wall, doorDef) ==
    [type |-> doorDef.type,
     wall |-> wall,
     width |-> Ft(doorDef.defaultWidth),
     height |-> Hundredths(doorDef.defaultHeight),
     position |-> getWallLength(dims, wall) \div 2 - Ft(doorDef.defaultWidth) \div 2,
     bottomOffset |-> 0]

quickAddOpening(dims, wall, doorDef) ==
    [type |-> doorDef.type,
     wall |-> wall,
     width |-> Ft(doorDef.defaultWidth),
     height |-> Hundredths(doorDef.defaultHeight),
     position |-> getWallLength(dims, wall) \div 2 - Ft(doorDef.defaultWidth) \div 2,
     bottomOffset |-> IF doorDef.category = "window" THEN Ft(4) ELSE 0]

handleQuickAdd(k) ==
    /\ openings' = addOpening(openings, quickAddOpening(dimensions, selectedWall, DOOR_TYPES[k]))
    /\ Rerender(openings', ui)
    /\ UNCHANGED <<dimensions, roof, walls, leanToConfigs, ui, selectedWall, colors, now>>

\* the wall <select> of an added opening
wallChangeUpdates(dims, o, w) ==
    [wall |-> w, position |-> getWallLength(dims, w) \div 2 - o.width \div 2]

handleWallChange(i, w) ==
    /\ i \in 1..Len(openings)
    /\ openings' = updateOpening(openings, openings[i].id,
                                 wallChangeUpdates(dimensions, openings[i], w))
    /\ Rerender(openings', ui)
    /\ UNCHANGED <<dimensions, roof, walls, leanToConfigs, ui, selectedWall, colors, now>>

\* <input type="range" min max step>: min + k * step, not above max
rangeValues(min, max, step) ==
    {min + k * step : k \in 0..((max - min) \div step)}

\* the position slider: min 0, max maxPosition, step 0.5; the model moves it
\* to either end
positionSliderValues(dims, o) ==
    LET all == rangeValues(0, maxPosition(dims, o), Ft(1) \div 2)
    IN  {v \in all : v = 0 \/ v + Ft(1) \div 2 \notin all}

handlePositionChange(i, v) ==
    /\ i \in 1..Len(openings)
    /\ v \in positionSliderValues(dimensions, openings[i])
    /\ openings' = updateOpening(openings, openings[i].id, [position |-> v])
    /\ Rerender(openings', ui)
    /\ UNCHANGED <<dimensions, roof, walls, leanToConfigs, ui, selectedWall, colors, now>>

handleRemoveClick(i) ==
    /\ i \in 1..Len(openings)
    /\ openings' = removeOpening(openings, openings[i].id)
    /\ Rerender(openings', ui)
    /\ UNCHANGED <<dimensions, roof, walls, leanToConfigs, ui, selectedWall, colors, now>>

handleSelectClick(i) ==
    /\ i \in 1..Len(openings)
    /\ ui' = setSelectedOpeningId(ui, openings[i].id)
    /\ UNCHANGED <<dimensions, roof, walls, leanToConfigs, openings, selectedWall, colors, now>>
    /\ UNCHANGED dragVars


---------------------------------------------------------------------------
(* DimensionsPanel: the three sliders.  A Slider is a range input, which   *)
(* yields min + k * step up to max, next to a number input, which yields   *)
(* whatever number is typed into it.                                       *)

DimensionSliders ==
    [width      |-> [min |-> 20, max |-> 100, step |-> 2],
     length     |-> [min |-> 20, max |-> 200, step |-> 2],
     eaveHeight |-> [min |-> 8,  max |-> 24,  step |-> 1]]

\* the values (in feet) the model drags a range input to
RangeChoices == {8, 20}

\* the values (in feet) the model types into a number input
TypedChoices == {10}

handleSliderRange(field, v) ==
    LET sl == DimensionSliders[field] IN
    /\ v \in rangeValues(sl.min, sl.max, sl.step)
    /\ dimensions' = setDimensions(dimensions, [f \in {field} |-> Ft(v)])
    /\ UNCHANGED <<roof, walls, leanToConfigs, openings, ui, selectedWall, colors, now>>
    /\ UNCHANGED dragVars

handleSliderNumber(field, v) ==
    /\ dimensions' = setDimensions(dimensions, [f \in {field} |-> Ft(v)])
    /\ UNCHANGED <<roof, walls, leanToConfigs, openings, ui, selectedWall, colors, now>>
    /\ UNCHANGED dragVars

---------------------------------------------------------------------------
(* Sidebar: the visibility button and the reset button *)

VisibilityCycle == <<"full", "hide-walls", "hide-roof", "frame-only">>

\* modes.indexOf(mode), 0-based, -1 when absent
indexOfMode(mode) ==
    IF \E k \in 1..Len(VisibilityCycle) : VisibilityCycle[k] = mode
    THEN (CHOOSE k \in 1..Len(VisibilityCycle) : VisibilityCycle[k] = mode) - 1
    ELSE 0 - 1

\* a cycle stepping to the previous entry instead of the next
nextVisibilityModeBackwards(mode) ==
    VisibilityCycle[((indexOfMode(mode) + Len(VisibilityCycle) - 1) % Len(VisibilityCycle)) + 1]

nextVisibilityMode(mode) ==
    VisibilityCycle[((indexOfMode(mode) + 1) % Len(VisibilityCycle)) + 1]

cycleVisibility ==
    /\ ui' = setVisibilityMode(ui, nextVisibilityMode(ui.visibilityMode))
    /\ Rerender(openings, ui')
    /\ UNCHANGED <<dimensions, roof, walls, leanToConfigs, openings, selectedWall, colors, now>>

\* Sidebar: the INSIDE / OUTSIDE button
handleViewModeClick ==
    /\ ui' = setViewMode(ui, IF ui.viewMode = "exterior" THEN "interior" ELSE "exterior")
    /\ Rerender(openings, ui')
    /\ UNCHANGED <<dimensions, roof, walls, leanToConfigs, openings, selectedWall, colors, now>>

\* Sidebar: the accordion panels, in the order they are listed
PanelIds == {"dimensions", "colors", "roof", "walls", "doors-windows", "lean-tos",
             "environment"}

\* Accordion onToggle of one panel
handlePanelToggle(id) ==
    /\ ui' = setExpandedPanel(ui, IF ui.expandedPanel = id THEN Null ELSE id)
    /\ Rerender(openings, ui')
    /\ UNCHANGED <<dimensions, roof, walls, leanToConfigs, openings, selectedWall, colors, now>>

handleResetView ==
    /\ ui' = resetView(ui)
    /\ Rerender(openings, ui')
    /\ UNCHANGED <<dimensions, roof, walls, leanToConfigs, openings, selectedWall, colors, now>>

---------------------------------------------------------------------------
(* Store entry point without a caller in the panels, and the clock *)

PlacementModes == {"null", "walk-single"}

callSetPlacementMode(mode) ==
    /\ ui' = setPlacementMode(ui, mode)
    /\ UNCHANGED <<dimensions, roof, walls, leanToConfigs, openings, selectedWall, colors, now>>
    /\ UNCHANGED dragVars

Tick ==
    /\ now < MaxClock
    /\ now' = now + 1
    /\ UNCHANGED storeVars
    /\ UNCHANGED <<selectedWall, dragVars>>

---------------------------------------------------------------------------
(* Store: the roof and lean-to setters, and the panels that call them *)

setRoof(rf, updates) == Merge(rf, updates)

setRoofOverhang(rf, side, value) ==
    [rf EXCEPT !.overhangs = [rf.overhangs EXCEPT ![side] = value]]

setLeanToConfig(cfgs, side, config) ==
    [cfgs EXCEPT ![side] = Merge(cfgs[side], config)]

RoofStyles == {"gable", "single-slope", "asymmetrical"}

\* DimensionsPanel: the roof type <select>
handleRoofStyleChange(style) ==
    /\ roof' = setRoof(roof, [style |-> style])
    /\ UNCHANGED <<dimensions, walls, leanToConfigs, openings, ui, selectedWall, colors, now>>
    /\ UNCHANGED dragVars

\* RoofPanel: the overhang sliders, min 0, step 1, max 4 on the sidewalls
\* and 20 on the end walls
overhangSliderValues(side) ==
    rangeValues(0, IF side \in {"east", "west"} THEN 4 ELSE 20, 1)

handleOverhangChange(side, v) ==
    /\ v \in overhangSliderValues(side)
    /\ roof' = setRoofOverhang(roof, side, Ft(v))
    /\ UNCHANGED <<dimensions, walls, leanToConfigs, openings, ui, selectedWall, colors, now>>
    /\ UNCHANGED dragVars

\* LeanTosPanel: the Enabled checkbox of one side
handleLeanToEnabledChange(side, checked) ==
    /\ leanToConfigs' = setLeanToConfig(leanToConfigs, side, [enabled |-> checked])
    /\ UNCHANGED <<dimensions, roof, walls, openings, ui, selectedWall, colors, now>>
    /\ UNCHANGED dragVars

---------------------------------------------------------------------------
(* Building: the members the scene emits.  A frame is recorded by the      *)
(* number of members of each role in it, a gated layer by whether it is    *)
(* emitted.                                                                *)

maxSpacing == 25
numLeanToFrames == 3

\* Math.ceil(a / b) for a >= 0 and b > 0
CeilDiv(a, b) == (a + b - 1) \div b

\* one frame per started bay, without the frame that closes the last bay
numFramesWithoutEndFrame(dims) == Max(2, CeilDiv(dims.length, Ft(maxSpacing)))

numFrames(dims) == Max(2, CeilDiv(dims.length, Ft(maxSpacing)) + 1)

\* length / (numFrames - 1)
frameSpacing(dims) == dims.length \div (numFrames(dims) - 1)

\* the rafters of a frame: two meeting at the ridge, or one spanning the
\* single slope
rafterCount(style) ==
    CASE style = "gable" -> 2
      [] style = "single-slope" -> 1
      [] style = "asymmetrical" -> 2
      [] OTHER -> 0

mainFrame(rf) ==
    [columns |-> 2, eaveBeam |-> 1, kneeBraces |-> 2, rafters |-> rafterCount(rf.style)]

mainFrames(dims, rf) == [i \in 1..numFrames(dims) |-> mainFrame(rf)]

overhangFrame(rf, side) ==
    IF rf.overhangs[side] > 0 THEN <<mainFrame(rf)>> ELSE <<>>

leanToFrames(cfgs, side) ==
    IF cfgs[side].enabled
    THEN [i \in 1..numLeanToFrames |-> [columns |-> 1, rafters |-> 1]]
    ELSE <<>>

\* a scene whose frames are hidden with the secondary members
BuildingHidingFrames(dims, rf, cfgs, u) ==
    LET secondary == showSecondaryMembers(u.visibilityMode) IN
    [mainFrames |-> IF secondary THEN mainFrames(dims, rf) ELSE <<>>,
     northOverhangFrame |-> IF secondary THEN overhangFrame(rf, "north") ELSE <<>>,
     southOverhangFrame |-> IF secondary THEN overhangFrame(rf, "south") ELSE <<>>,
     leanToFrames |-> [s \in WallSides |->
                         IF secondary THEN leanToFrames(cfgs, s) ELSE <<>>],
     girts |-> secondary,
     purlins |-> secondary,
     leanToPurlins |-> [s \in WallSides |-> cfgs[s].enabled /\ secondary],
     wallPanels |-> showWalls(u.visibilityMode),
     roofPanels |-> showRoof(u.visibilityMode)]

Building(dims, rf, cfgs, u) ==
    [mainFrames |-> mainFrames(dims, rf),
     northOverhangFrame |-> overhangFrame(rf, "north"),
     southOverhangFrame |-> overhangFrame(rf, "south"),
     leanToFrames |-> [s \in WallSides |-> leanToFrames(cfgs, s)],
     girts |-> showSecondaryMembers(u.visibilityMode),
     purlins |-> showSecondaryMembers(u.visibilityMode),
     leanToPurlins |-> [s \in WallSides |->
                          cfgs[s].enabled /\ showSecondaryMembers(u.visibilityMode)],
     wallPanels |-> showWalls(u.visibilityMode),
     roofPanels |-> showRoof(u.visibilityMode)]

---------------------------------------------------------------------------
(* Building: roof rise, lean-to derived quantities and secondary members   *)

\* a multiple of 1/2 (a pitch) as its number of halves
HalfUnits(x) == (2 * x) \div Den

\* (width / 2) * (pitch / 12)
roofRise(dims, rf) == (dims.width * HalfUnits(rf.pitch)) \div 48

\* Math.round(a / b) for b > 0
RoundDiv(a, b) == (2 * a + b) \div (2 * b)

columnInset == 90

\* Math.max(2, Math.floor(wallHeight / 4))
numWallGirts(wallHeight) == Max(2, wallHeight \div Ft(4))

eastWallHeight(dims, rf) ==
    IF rf.style = "single-slope" THEN dims.eaveHeight + roofRise(dims, rf)
    ELSE dims.eaveHeight

\* the girts of one main wall, base girt included
mainWallGirts(dims, rf, w, mode, side) ==
    IF showSecondaryMembers(mode) /\ w.enclosed[side]
    THEN (IF side = "east" THEN numWallGirts(eastWallHeight(dims, rf))
          ELSE numWallGirts(dims.eaveHeight)) + 1
    ELSE 0

\* ((asymmetricOffset - 5) / 5) * (width / 2), the peak carried all the way
\* to the eave at the ends of the offset scale
peakOffsetUnscaled(dims, rf) == ((rf.asymmetricOffset - 5) * dims.width) \div 10

\* ((asymmetricOffset - 5) / 5) * (width / 2) * 0.8
peakOffset(dims, rf) == ((rf.asymmetricOffset - 5) * dims.width * 2) \div 25

numLeftPurlins(dims, rf) ==
    Max(3, RoundDiv(peakOffset(dims, rf) + dims.width \div 2 - Hundredths(columnInset), Ft(4)))

numRightPurlins(dims, rf) ==
    Max(2, RoundDiv(dims.width \div 2 - Hundredths(columnInset) - peakOffset(dims, rf), Ft(4)))

\* the purlins of the main roof: ridge, left side, right side
mainPurlins(dims, rf, mode) ==
    IF ~showSecondaryMembers(mode) THEN [ridge |-> 0, left |-> 0, right |-> 0]
    ELSE CASE rf.style = "gable" -> [ridge |-> 1, left |-> 5, right |-> 5]
           [] rf.style = "single-slope" -> [ridge |-> 0, left |-> 6, right |-> 0]
           [] rf.style = "asymmetrical" ->
                 [ridge |-> 1, left |-> numLeftPurlins(dims, rf),
                  right |-> numRightPurlins(dims, rf)]
           [] OTHER -> [ridge |-> 0, left |-> 0, right |-> 0]

attachHeight(dims, cfg) == dims.eaveHeight - cfg.drop

\* depth * (roofPitch / 12)
leanToRoofRise(cfg) == (cfg.depth * HalfUnits(cfg.roofPitch)) \div 24

\* an outer height without its floor
outerHeightUnfloored(dims, cfg) == attachHeight(dims, cfg) - leanToRoofRise(cfg)

outerHeight(dims, cfg) == Max(Ft(1), attachHeight(dims, cfg) - leanToRoofRise(cfg))

showLeanToWalls(mode, cfg) == showWalls(mode) /\ cfg.walls # "open"

\* Math.max(3, Math.ceil(depth / 3))
leanToNumPurlins(cfg) == Max(3, CeilDiv(cfg.depth, Ft(3)))

leanToPurlinCount(cfgs, side, mode) ==
    IF cfgs[side].enabled /\ showSecondaryMembers(mode)
    THEN leanToNumPurlins(cfgs[side]) ELSE 0

leanToEaveBeams(cfgs, side, mode) ==
    IF cfgs[side].enabled /\ showSecondaryMembers(mode) THEN 2 ELSE 0

\* the girts of the outer wall of a lean-to, base girt included
leanToFrontGirts(dims, cfgs, side, mode) ==
    IF /\ cfgs[side].enabled
       /\ showSecondaryMembers(mode)
       /\ showLeanToWalls(mode, cfgs[side])
       /\ cfgs[side].walls \in {"full-length", "fully-enclosed"}
    THEN numWallGirts(outerHeight(dims, cfgs[side])) + 1
    ELSE 0

---------------------------------------------------------------------------
(* Store and panels: wall enclosure and the lean-to wall variant *)

setWalls(w, updates) == Merge(w, updates)

\* the enclosure of every side set at once
setWallEnclosedOnEverySide(w, side, enclosed) ==
    [w EXCEPT !.enclosed = [s \in DOMAIN w.enclosed |-> enclosed]]

setWallEnclosed(w, side, enclosed) ==
    [w EXCEPT !.enclosed = [w.enclosed EXCEPT ![side] = enclosed]]

\* WallsPanel: the enclosed checkbox of one side
handleWallEnclosedChange(side, checked) ==
    /\ walls' = setWallEnclosed(walls, side, checked)
    /\ UNCHANGED <<dimensions, roof, leanToConfigs, openings, ui, selectedWall, colors, now>>
    /\ UNCHANGED dragVars

LeanToWallTypes ==
    {"full-length", "fully-enclosed", "open", "gable-dress", "gable-walls-only", "2ft-apron"}

\* LeanTosPanel: the Walls dropdown, shown while the lean-to is enabled
handleLeanToWallsChange(side, variant) ==
    /\ leanToConfigs[side].enabled
    /\ leanToConfigs' = setLeanToConfig(leanToConfigs, side, [walls |-> variant])
    /\ UNCHANGED <<dimensions, roof, walls, openings, ui, selectedWall, colors, now>>
    /\ UNCHANGED dragVars

---------------------------------------------------------------------------
(* LeanTosPanel: the sliders of one side, shown while the lean-to is       *)
(* enabled; each is a Slider with a range input and a number input         *)

LeanToSliders ==
    [drop      |-> [min |-> 0, max |-> 5,  step |-> 1],
     cutL      |-> [min |-> 0, max |-> 20, step |-> 1],
     cutR      |-> [min |-> 0, max |-> 20, step |-> 1],
     depth     |-> [min |-> 4, max |-> 20, step |-> 1],
     roofPitch |-> [min |-> 1, max |-> 6,  step |-> 1]]

handleLeanToSliderRange(side, field, v) ==
    LET sl == LeanToSliders[field] IN
    /\ leanToConfigs[side].enabled
    /\ v \in rangeValues(sl.min, sl.max, sl.step)
    /\ leanToConfigs' = setLeanToConfig(leanToConfigs, side, [f \in {field} |-> Ft(v)])
    /\ UNCHANGED <<dimensions, roof, walls, openings, ui, selectedWall, colors, now>>
    /\ UNCHANGED dragVars

handleLeanToSliderNumber(side, field, v) ==
    /\ leanToConfigs[side].enabled
    /\ leanToConfigs' = setLeanToConfig(leanToConfigs, side, [f \in {field} |-> Ft(v)])
    /\ UNCHANGED <<dimensions, roof, walls, openings, ui, selectedWall, colors, now>>
    /\ UNCHANGED dragVars

---------------------------------------------------------------------------
(* Building: the span of a lean-to and the positions of its frames along   *)
(* the span, measured from the middle of the span                          *)

endWallInset == 150

\* leanToWidth (south, north) or leanToLength (west, east)
leanToSpan(dims, cfgs, side) ==
    (IF side \in {"south", "north"} THEN dims.width ELSE dims.length)
        - cfgs[side].cutL - cfgs[side].cutR

frameableSpan(dims, cfgs, side) ==
    leanToSpan(dims, cfgs, side) - Hundredths(endWallInset) * 2

actualFrameSpacing(dims, cfgs, side) ==
    frameableSpan(dims, cfgs, side) \div (numLeanToFrames - 1)

\* xPos (south, north) or zPos (west, east) of frame frameIdx = 0, 1, 2
leanToFramePos(dims, cfgs, side, frameIdx) ==
    0 - leanToSpan(dims, cfgs, side) \div 2 + Hundredths(endWallInset)
        + frameIdx * actualFrameSpacing(dims, cfgs, side)

---------------------------------------------------------------------------
(* Building: the envelope of a lean-to (roof, wall panels, trim) and the   *)
(* wainscot bands, as numbers of meshes                                    *)

leanToRoofPanel(cfgs, side, mode) ==
    IF cfgs[side].enabled /\ showRoof(mode) THEN 1 ELSE 0

\* a front wall for the full-length variant only
leanToFrontWallFullLengthOnly(cfgs, side, mode) ==
    IF /\ cfgs[side].enabled /\ showLeanToWalls(mode, cfgs[side])
       /\ cfgs[side].walls = "full-length"
    THEN 1 ELSE 0

leanToFrontWall(cfgs, side, mode) ==
    IF /\ cfgs[side].enabled /\ showLeanToWalls(mode, cfgs[side])
       /\ cfgs[side].walls \in {"full-length", "fully-enclosed"}
    THEN 1 ELSE 0

\* the trapezoid walls at the two ends
leanToSideWalls(cfgs, side, mode) ==
    IF /\ cfgs[side].enabled /\ showLeanToWalls(mode, cfgs[side])
       /\ cfgs[side].walls \in {"fully-enclosed", "gable-walls-only"}
    THEN 2 ELSE 0

\* the triangular panels at the two ends
leanToGableDress(cfgs, side, mode) ==
    IF /\ cfgs[side].enabled /\ showLeanToWalls(mode, cfgs[side])
       /\ cfgs[side].walls = "gable-dress"
    THEN 2 ELSE 0

leanToApron(cfgs, side, mode) ==
    IF /\ cfgs[side].enabled /\ showLeanToWalls(mode, cfgs[side])
       /\ cfgs[side].walls = "2ft-apron"
    THEN 1 ELSE 0

\* the trim pieces of each variant
leanToTrim(cfgs, side, mode) ==
    IF cfgs[side].enabled /\ showWalls(mode) /\ cfgs[side].walls # "open"
    THEN CASE cfgs[side].walls = "full-length" -> 3
           [] cfgs[side].walls = "fully-enclosed" -> 7
           [] cfgs[side].walls = "gable-walls-only" -> 6
           [] cfgs[side].walls = "gable-dress" -> 2
           [] cfgs[side].walls = "2ft-apron" -> 2
           [] OTHER -> 0
    ELSE 0

\* a main wall wainscot that ignores the lean-to of its side
mainWainscotUnderLeanTo(w, cfgs, side, mode) ==
    IF showWalls(mode) /\ w.wainscotEnabled /\ w.enclosed[side] THEN 1 ELSE 0

\* the wainscot band of one main wall
mainWainscot(w, cfgs, side, mode) ==
    IF /\ showWalls(mode) /\ w.wainscotEnabled
       /\ w.enclosed[side] /\ ~cfgs[side].enabled
    THEN 1 ELSE 0

\* the wainscot band on the front wall of a lean-to
leanToFrontWainscot(w, cfgs, side, mode) ==
    IF /\ cfgs[side].enabled /\ showWalls(mode) /\ w.wainscotEnabled
       /\ cfgs[side].walls \in {"full-length", "fully-enclosed"}
    THEN 1 ELSE 0

\* the wainscot bands on the two end walls of a lean-to
leanToSideWainscots(w, cfgs, side, mode) ==
    IF /\ cfgs[side].enabled /\ showWalls(mode) /\ w.wainscotEnabled
       /\ cfgs[side].walls \in {"fully-enclosed", "gable-walls-only"}
    THEN 2 ELSE 0

\* WallsPanel: the wainscot checkbox
handleWainscotEnabledChange(checked) ==
    /\ walls' = setWalls(walls, [wainscotEnabled |-> checked])
    /\ UNCHANGED <<dimensions, roof, leanToConfigs, openings, ui, selectedWall, colors, now>>
    /\ UNCHANGED dragVars

---------------------------------------------------------------------------
(* DimensionsPanel: the roof pitch Slider, min 1, max 6, step 0.5.  Its    *)
(* values are counted in halves.                                           *)

roofPitchSliderHalves == rangeValues(2, 12, 1)

handleRoofPitchRange(halves) ==
    /\ halves \in roofPitchSliderHalves
    /\ roof' = setRoof(roof, [pitch |-> (halves * Den) \div 2])
    /\ UNCHANGED <<dimensions, walls, leanToConfigs, openings, ui, selectedWall, colors, now>>
    /\ UNCHANGED dragVars

handleRoofPitchNumber(halves) ==
    /\ roof' = setRoof(roof, [pitch |-> (halves * Den) \div 2])
    /\ UNCHANGED <<dimensions, walls, leanToConfigs, openings, ui, selectedWall, colors, now>>
    /\ UNCHANGED dragVars

\* the rafter of a lean-to frame: a box leanToRoofLength long, turned by
\* leanToRoofAngle about its centre, so that it spans depth horizontally
\* and leanToRoofRise vertically
leanToRafter(dims, cfg) ==
    [run |-> cfg.depth,
     rise |-> leanToRoofRise(cfg),
     centerY |-> (attachHeight(dims, cfg) + outerHeight(dims, cfg)) \div 2 - Ft(1)]

\* the roof panel of a lean-to: the same slope, centred on the roof line
leanToRoofSlope(dims, cfg) ==
    [run |-> cfg.depth,
     rise |-> leanToRoofRise(cfg),
     centerY |-> (attachHeight(dims, cfg) + outerHeight(dims, cfg)) \div 2]

\* the apron of the 2ft-apron variant: a panel 2 ft tall centred 1 ft
\* below outerHeight, and its bottom trim, 0.2 ft tall centred 2.1 ft below
leanToApronPanel(dims, cfg) ==
    [top |-> outerHeight(dims, cfg) - Ft(1) + Ft(2) \div 2,
     bottom |-> outerHeight(dims, cfg) - Ft(1) - Ft(2) \div 2]

leanToApronBottomTrim(dims, cfg) ==
    [top |-> outerHeight(dims, cfg) - Hundredths(210) + Hundredths(20) \div 2,
     bottom |-> outerHeight(dims, cfg) - Hundredths(210) - Hundredths(20) \div 2]

---------------------------------------------------------------------------
(* Building: the four lean-to blocks, each as the values it derives from   *)
(* its side's configuration and the roles of the elements it emits.  The   *)
(* south and north blocks span the width and lay their frames along x, the *)
(* west and east blocks span the length and lay them along z.              *)

southLeanTo(dims, cfg, w, mode) ==
    LET leanToWidth == dims.width - cfg.cutL - cfg.cutR
        attach == dims.eaveHeight - cfg.drop
        rise == (cfg.depth * HalfUnits(cfg.roofPitch)) \div 24
        outer == Max(Ft(1), attach - rise)
        leanToWalls == showWalls(mode) /\ cfg.walls # "open"
        frameable == leanToWidth - Hundredths(endWallInset) * 2
        spacing == frameable \div (numLeanToFrames - 1)
        numPurlins == Max(3, CeilDiv(cfg.depth, Ft(3)))
        numGirts == Max(2, outer \div Ft(4))
        secondary == showSecondaryMembers(mode)
        front == cfg.walls \in {"full-length", "fully-enclosed"}
        ends == cfg.walls \in {"fully-enclosed", "gable-walls-only"}
    IN  [axis |-> "x",
         offset |-> (cfg.cutR - cfg.cutL) \div 2,
         purlinSign |-> 1,
         span |-> leanToWidth,
         attachHeight |-> attach,
         roofRise |-> rise,
         outerHeight |-> outer,
         slope |-> [run |-> cfg.depth, rise |-> rise],
         frameCount |-> numLeanToFrames,
         frameOffsets |-> [frameIdx \in 0..(numLeanToFrames - 1) |->
                             0 - leanToWidth \div 2 + Hundredths(endWallInset) + frameIdx * spacing],
         purlins |-> IF secondary THEN numPurlins ELSE 0,
         girts |-> IF secondary /\ leanToWalls /\ front THEN numGirts + 1 ELSE 0,
         roles |-> {"column", "rafter"}
                     \cup (IF secondary THEN {"eave beam", "purlin"} ELSE {})
                     \cup (IF secondary /\ leanToWalls /\ front THEN {"girt", "base girt"} ELSE {})
                     \cup (IF showRoof(mode) THEN {"roof"} ELSE {})
                     \cup (IF leanToWalls /\ front THEN {"front wall"} ELSE {})
                     \cup (IF leanToWalls /\ ends THEN {"end wall"} ELSE {})
                     \cup (IF leanToWalls /\ cfg.walls = "gable-dress" THEN {"gable dress"} ELSE {})
                     \cup (IF leanToWalls /\ cfg.walls = "2ft-apron" THEN {"apron"} ELSE {})
                     \cup (IF showWalls(mode) /\ w.wainscotEnabled /\ front
                           THEN {"front wainscot"} ELSE {})
                     \cup (IF showWalls(mode) /\ w.wainscotEnabled /\ ends
                           THEN {"end wainscot"} ELSE {})
                     \cup (IF showWalls(mode) /\ cfg.walls # "open" THEN {"trim"} ELSE {})]

\* a north block whose outer height has no floor
northLeanToUnfloored(dims, cfg, w, mode) ==
    LET leanToWidth == dims.width - cfg.cutL - cfg.cutR
        attach == dims.eaveHeight - cfg.drop
        rise == (cfg.depth * HalfUnits(cfg.roofPitch)) \div 24
        outer == attach - rise
        leanToWalls == showWalls(mode) /\ cfg.walls # "open"
        frameable == leanToWidth - Hundredths(endWallInset) * 2
        spacing == frameable \div (numLeanToFrames - 1)
        numPurlins == Max(3, CeilDiv(cfg.depth, Ft(3)))
        numGirts == Max(2, outer \div Ft(4))
        secondary == showSecondaryMembers(mode)
        front == cfg.walls \in {"full-length", "fully-enclosed"}
        ends == cfg.walls \in {"fully-enclosed", "gable-walls-only"}
    IN  [axis |-> "x",
         offset |-> (cfg.cutL - cfg.cutR) \div 2,
         purlinSign |-> -1,
         span |-> leanToWidth,
         attachHeight |-> attach,
         roofRise |-> rise,
         outerHeight |-> outer,
         slope |-> [run |-> cfg.depth, rise |-> rise],
         frameCount |-> numLeanToFrames,
         frameOffsets |-> [frameIdx \in 0..(numLeanToFrames - 1) |->
                             0 - leanToWidth \div 2 + Hundredths(endWallInset) + frameIdx * spacing],
         purlins |-> IF secondary THEN numPurlins ELSE 0,
         girts |-> IF secondary /\ leanToWalls /\ front THEN numGirts + 1 ELSE 0,
         roles |-> {"column", "rafter"}
                     \cup (IF secondary THEN {"eave beam", "purlin"} ELSE {})
                     \cup (IF secondary /\ leanToWalls /\ front THEN {"girt", "base girt"} ELSE {})
                     \cup (IF showRoof(mode) THEN {"roof"} ELSE {})
                     \cup (IF leanToWalls /\ front THEN {"front wall"} ELSE {})
                     \cup (IF leanToWalls /\ ends THEN {"end wall"} ELSE {})
                     \cup (IF leanToWalls /\ cfg.walls = "gable-dress" THEN {"gable dress"} ELSE {})
                     \cup (IF leanToWalls /\ cfg.walls = "2ft-apron" THEN {"apron"} ELSE {})
                     \cup (IF showWalls(mode) /\ w.wainscotEnabled /\ front
                           THEN {"front wainscot"} ELSE {})
                     \cup (IF showWalls(mode) /\ w.wainscotEnabled /\ ends
                           THEN {"end wainscot"} ELSE {})
                     \cup (IF showWalls(mode) /\ cfg.walls # "open" THEN {"trim"} ELSE {})]

northLeanTo(dims, cfg, w, mode) ==
    LET leanToWidth == dims.width - cfg.cutL - cfg.cutR
        attach == dims.eaveHeight - cfg.drop
        rise == (cfg.depth * HalfUnits(cfg.roofPitch)) \div 24
        outer == Max(Ft(1), attach - rise)
        leanToWalls == showWalls(mode) /\ cfg.walls # "open"
        frameable == leanToWidth - Hundredths(endWallInset) * 2
        spacing == frameable \div (numLeanToFrames - 1)
        numPurlins == Max(3, CeilDiv(cfg.depth, Ft(3)))
        numGirts == Max(2, outer \div Ft(4))
        secondary == showSecondaryMembers(mode)
        front == cfg.walls \in {"full-length", "fully-enclosed"}
        ends == cfg.walls \in {"fully-enclosed", "gable-walls-only"}
    IN  [axis |-> "x",
         offset |-> (cfg.cutL - cfg.cutR) \div 2,
         purlinSign |-> -1,
         span |-> leanToWidth,
         attachHeight |-> attach,
         roofRise |-> rise,
         outerHeight |-> outer,
         slope |-> [run |-> cfg.depth, rise |-> rise],
         frameCount |-> numLeanToFrames,
         frameOffsets |-> [frameIdx \in 0..(numLeanToFrames - 1) |->
                             0 - leanToWidth \div 2 + Hundredths(endWallInset) + frameIdx * spacing],
         purlins |-> IF secondary THEN numPurlins ELSE 0,
         girts |-> IF secondary /\ leanToWalls /\ front THEN numGirts + 1 ELSE 0,
         roles |-> {"column", "rafter"}
                     \cup (IF secondary THEN {"eave beam", "purlin"} ELSE {})
                     \cup (IF secondary /\ leanToWalls /\ front THEN {"girt", "base girt"} ELSE {})
                     \cup (IF showRoof(mode) THEN {"roof"} ELSE {})
                     \cup (IF leanToWalls /\ front THEN {"front wall"} ELSE {})
                     \cup (IF leanToWalls /\ ends THEN {"end wall"} ELSE {})
                     \cup (IF leanToWalls /\ cfg.walls = "gable-dress" THEN {"gable dress"} ELSE {})
                     \cup (IF leanToWalls /\ cfg.walls = "2ft-apron" THEN {"apron"} ELSE {})
                     \cup (IF showWalls(mode) /\ w.wainscotEnabled /\ front
                           THEN {"front wainscot"} ELSE {})
                     \cup (IF showWalls(mode) /\ w.wainscotEnabled /\ ends
                           THEN {"end wainscot"} ELSE {})
                     \cup (IF showWalls(mode) /\ cfg.walls # "open" THEN {"trim"} ELSE {})]

westLeanTo(dims, cfg, w, mode) ==
    LET leanToLength == dims.length - cfg.cutL - cfg.cutR
        attach == dims.eaveHeight - cfg.drop
        rise == (cfg.depth * HalfUnits(cfg.roofPitch)) \div 24
        outer == Max(Ft(1), attach - rise)
        leanToWalls == showWalls(mode) /\ cfg.walls # "open"
        frameable == leanToLength - Hundredths(endWallInset) * 2
        spacing == frameable \div (numLeanToFrames - 1)
        numPurlins == Max(3, CeilDiv(cfg.depth, Ft(3)))
        numGirts == Max(2, outer \div Ft(4))
        secondary == showSecondaryMembers(mode)
        front == cfg.walls \in {"full-length", "fully-enclosed"}
        ends == cfg.walls \in {"fully-enclosed", "gable-walls-only"}
    IN  [axis |-> "z",
         offset |-> (cfg.cutR - cfg.cutL) \div 2,
         purlinSign |-> -1,
         span |-> leanToLength,
         attachHeight |-> attach,
         roofRise |-> rise,
         outerHeight |-> outer,
         slope |-> [run |-> cfg.depth, rise |-> rise],
         frameCount |-> numLeanToFrames,
         frameOffsets |-> [frameIdx \in 0..(numLeanToFrames - 1) |->
                             0 - leanToLength \div 2 + Hundredths(endWallInset) + frameIdx * spacing],
         purlins |-> IF secondary THEN numPurlins ELSE 0,
         girts |-> IF secondary /\ leanToWalls /\ front THEN numGirts + 1 ELSE 0,
         roles |-> {"column", "rafter"}
                     \cup (IF secondary THEN {"eave beam", "purlin"} ELSE {})
                     \cup (IF secondary /\ leanToWalls /\ front THEN {"girt", "base girt"} ELSE {})
                     \cup (IF showRoof(mode) THEN {"roof"} ELSE {})
                     \cup (IF leanToWalls /\ front THEN {"front wall"} ELSE {})
                     \cup (IF leanToWalls /\ ends THEN {"end wall"} ELSE {})
                     \cup (IF leanToWalls /\ cfg.walls = "gable-dress" THEN {"gable dress"} ELSE {})
                     \cup (IF leanToWalls /\ cfg.walls = "2ft-apron" THEN {"apron"} ELSE {})
                     \cup (IF showWalls(mode) /\ w.wainscotEnabled /\ front
                           THEN {"front wainscot"} ELSE {})
                     \cup (IF showWalls(mode) /\ w.wainscotEnabled /\ ends
                           THEN {"end wainscot"} ELSE {})
                     \cup (IF showWalls(mode) /\ cfg.walls # "open" THEN {"trim"} ELSE {})]

eastLeanTo(dims, cfg, w, mode) ==
    LET leanToLength == dims.length - cfg.cutL - cfg.cutR
        attach == dims.eaveHeight - cfg.drop
        rise == (cfg.depth * HalfUnits(cfg.roofPitch)) \div 24
        outer == Max(Ft(1), attach - rise)
        leanToWalls == showWalls(mode) /\ cfg.walls # "open"
        frameable == leanToLength - Hundredths(endWallInset) * 2
        spacing == frameable \div (numLeanToFrames - 1)
        numPurlins == Max(3, CeilDiv(cfg.depth, Ft(3)))
        numGirts == Max(2, outer \div Ft(4))
        secondary == showSecondaryMembers(mode)
        front == cfg.walls \in {"full-length", "fully-enclosed"}
        ends == cfg.walls \in {"fully-enclosed", "gable-walls-only"}
    IN  [axis |-> "z",
         offset |-> (cfg.cutL - cfg.cutR) \div 2,
         purlinSign |-> 1,
         span |-> leanToLength,
         attachHeight |-> attach,
         roofRise |-> rise,
         outerHeight |-> outer,
         slope |-> [run |-> cfg.depth, rise |-> rise],
         frameCount |-> numLeanToFrames,
         frameOffsets |-> [frameIdx \in 0..(numLeanToFrames - 1) |->
                             0 - leanToLength \div 2 + Hundredths(endWallInset) + frameIdx * spacing],
         purlins |-> IF secondary THEN numPurlins ELSE 0,
         girts |-> IF secondary /\ leanToWalls /\ front THEN numGirts + 1 ELSE 0,
         roles |-> {"column", "rafter"}
                     \cup (IF secondary THEN {"eave beam", "purlin"} ELSE {})
                     \cup (IF secondary /\ leanToWalls /\ front THEN {"girt", "base girt"} ELSE {})
                     \cup (IF showRoof(mode) THEN {"roof"} ELSE {})
                     \cup (IF leanToWalls /\ front THEN {"front wall"} ELSE {})
                     \cup (IF leanToWalls /\ ends THEN {"end wall"} ELSE {})
                     \cup (IF leanToWalls /\ cfg.walls = "gable-dress" THEN {"gable dress"} ELSE {})
                     \cup (IF leanToWalls /\ cfg.walls = "2ft-apron" THEN {"apron"} ELSE {})
                     \cup (IF showWalls(mode) /\ w.wainscotEnabled /\ front
                           THEN {"front wainscot"} ELSE {})
                     \cup (IF showWalls(mode) /\ w.wainscotEnabled /\ ends
                           THEN {"end wainscot"} ELSE {})
                     \cup (IF showWalls(mode) /\ cfg.walls # "open" THEN {"trim"} ELSE {})]

---------------------------------------------------------------------------
(* Colours and the wall polygon geometries.  Building subscribes to the   *)
(* whole store, so it renders again after every store change.  A geometry *)
(* held by useMemo is constructed again only when one of its dependencies *)
(* differs from the previous render's; a geometry constructed in the body *)
(* of the render is constructed on every render that reaches it.          *)

ColorKeys == {"roof", "wall", "trim", "wainscot"}

setColor(c, key, value) == [c EXCEPT ![key] = value]

\* ColorsPanel: the four ColorPicker onChange handlers
handleColorChange(key, value) ==
    /\ colors' = setColor(colors, key, value)
    /\ UNCHANGED <<dimensions, roof, walls, leanToConfigs, openings, ui, selectedWall, now>>
    /\ UNCHANGED dragVars

\* dependency lists of the three end-wall useMemo hooks
gableEndWallDeps(dims, rf) == <<dims.width, dims.eaveHeight, roofRise(dims, rf)>>

asymmetricalEndWallDeps(dims, rf) ==
    <<dims.width, dims.eaveHeight, roofRise(dims, rf), peakOffset(dims, rf)>>

singleSlopeEndWallDeps(dims, rf) == <<dims.width, dims.eaveHeight, roofRise(dims, rf)>>

\* the memoized geometries constructed by the render of (dims1, rf1) that
\* follows the render of (dims0, rf0)
memoizedGeometriesRebuilt(dims0, rf0, dims1, rf1) ==
    {g \in {"gableEndWallGeometry", "asymmetricalEndWallGeometry",
            "singleSlopeEndWallGeometry"} :
        CASE g = "gableEndWallGeometry" ->
                 gableEndWallDeps(dims1, rf1) # gableEndWallDeps(dims0, rf0)
          [] g = "asymmetricalEndWallGeometry" ->
                 asymmetricalEndWallDeps(dims1, rf1) # asymmetricalEndWallDeps(dims0, rf0)
          [] OTHER ->
                 singleSlopeEndWallDeps(dims1, rf1) # singleSlopeEndWallDeps(dims0, rf0)}

\* the south lean-to's side-wall and gable-dress geometries, constructed
\* in the body of the render
inlineGeometriesBuilt(cfgs, mode) ==
    (IF leanToSideWalls(cfgs, "south", mode) > 0 THEN {"sideWallGeo"} ELSE {})
      \cup (IF leanToGableDress(cfgs, "south", mode) > 0 THEN {"gableDressGeo"} ELSE {})

\* the wall polygon geometries constructed by the render after a store change
geometriesRebuilt(dims0, rf0, dims1, rf1, cfgs1, mode1) ==
    memoizedGeometriesRebuilt(dims0, rf0, dims1, rf1)
      \cup inlineGeometriesBuilt(cfgs1, mode1)

---------------------------------------------------------------------------
(* The roof of the main building by style: end-wall polygon, rafters of   *)
(* one frame, roof panels.  A length Math.sqrt(run ** 2 + rise ** 2) is   *)
(* kept as its run and rise, an angle Math.atan2(rise, run) as its run.   *)

\* DimensionsPanel: the Asymmetrical slider, shown for that style only
handleAsymmetricOffsetRange(v) ==
    /\ roof.style = "asymmetrical"
    /\ v \in rangeValues(1, 9, 1)
    /\ roof' = setRoof(roof, [asymmetricOffset |-> v])
    /\ UNCHANGED <<dimensions, walls, leanToConfigs, openings, ui, selectedWall, colors, now>>
    /\ UNCHANGED dragVars

leftWidth(dims, rf) == dims.width \div 2 + peakOffset(dims, rf)

rightWidth(dims, rf) == dims.width \div 2 - peakOffset(dims, rf)

\* the nine (x, y) vertices of the pentagon's three triangles
gableEndWallGeometry(dims, rf) ==
    LET hw == dims.width \div 2
        eave == dims.eaveHeight
    IN  << <<-hw, 0>>, <<hw, 0>>, <<hw, eave>>,
           <<-hw, 0>>, <<hw, eave>>, <<-hw, eave>>,
           <<-hw, eave>>, <<hw, eave>>,
           <<0, eave + roofRise(dims, rf) + Hundredths(20)>> >>

asymmetricalEndWallGeometry(dims, rf) ==
    LET hw == dims.width \div 2
        eave == dims.eaveHeight
    IN  << <<-hw, 0>>, <<hw, 0>>, <<hw, eave>>,
           <<-hw, 0>>, <<hw, eave>>, <<-hw, eave>>,
           <<-hw, eave>>, <<hw, eave>>,
           <<peakOffset(dims, rf), eave + roofRise(dims, rf) + Hundredths(20)>> >>

\* the six (x, y) vertices of the quadrilateral's two triangles
singleSlopeEndWallGeometry(dims, rf) ==
    LET hw == dims.width \div 2
        high == dims.eaveHeight + roofRise(dims, rf) - Hundredths(10)
    IN  << <<-hw, 0>>, <<hw, 0>>, <<hw, high>>,
           <<-hw, 0>>, <<hw, high>>, <<-hw, dims.eaveHeight - Hundredths(10)>> >>

endWallGeometry(dims, rf) ==
    CASE rf.style = "gable" -> gableEndWallGeometry(dims, rf)
      [] rf.style = "asymmetrical" -> asymmetricalEndWallGeometry(dims, rf)
      [] OTHER -> singleSlopeEndWallGeometry(dims, rf)

\* the rafters of one main frame: horizontal run and rise of each rafter's
\* length, centre, and the run of its rotation angle
gableRafters(dims, rf) ==
    LET rafterHorizLength == dims.width \div 2 - Hundredths(columnInset)
        rafterCenterY == dims.eaveHeight + roofRise(dims, rf) \div 2 - Hundredths(80)
    IN  << [run |-> rafterHorizLength, rise |-> roofRise(dims, rf),
            x |-> -(rafterHorizLength \div 2), y |-> rafterCenterY,
            angleRun |-> dims.width \div 2],
           [run |-> rafterHorizLength, rise |-> roofRise(dims, rf),
            x |-> rafterHorizLength \div 2, y |-> rafterCenterY,
            angleRun |-> dims.width \div 2] >>

asymmetricalRafters(dims, rf) ==
    LET leftHorizLength == peakOffset(dims, rf) + dims.width \div 2 - Hundredths(columnInset)
        rightHorizLength == dims.width \div 2 - Hundredths(columnInset) - peakOffset(dims, rf)
        rafterCenterY == dims.eaveHeight + roofRise(dims, rf) \div 2 - Hundredths(80)
    IN  << [run |-> leftHorizLength, rise |-> roofRise(dims, rf),
            x |-> (-(dims.width \div 2) + Hundredths(columnInset) + peakOffset(dims, rf)) \div 2,
            y |-> rafterCenterY, angleRun |-> leftWidth(dims, rf)],
           [run |-> rightHorizLength, rise |-> roofRise(dims, rf),
            x |-> (dims.width \div 2 - Hundredths(columnInset) + peakOffset(dims, rf)) \div 2,
            y |-> rafterCenterY, angleRun |-> rightWidth(dims, rf)] >>

singleSlopeRafters(dims, rf) ==
    LET rafterHorizLength == dims.width - 2 * Hundredths(columnInset)
    IN  << [run |-> rafterHorizLength, rise |-> roofRise(dims, rf), x |-> 0,
            y |-> dims.eaveHeight + roofRise(dims, rf) \div 2 - Hundredths(80),
            angleRun |-> rafterHorizLength] >>

rafters(dims, rf) ==
    CASE rf.style = "gable" -> gableRafters(dims, rf)
      [] rf.style = "asymmetrical" -> asymmetricalRafters(dims, rf)
      [] OTHER -> singleSlopeRafters(dims, rf)

\* length + overhangs.north + overhangs.south + roofExtension * 2
totalRoofLength(dims, rf) ==
    dims.length + rf.overhangs.north + rf.overhangs.south + 2 * Hundredths(150)

\* the roof panels: the run and rise of the slope length, what the panel is
\* longer than it by, and the panel's extent along the building
gableRoofPanels(dims, rf) ==
    << [run |-> dims.width \div 2, rise |-> roofRise(dims, rf),
        extra |-> Hundredths(50) + rf.overhangs.west, along |-> totalRoofLength(dims, rf)],
       [run |-> dims.width \div 2, rise |-> roofRise(dims, rf),
        extra |-> Hundredths(50) + rf.overhangs.east, along |-> totalRoofLength(dims, rf)] >>

asymmetricalRoofPanels(dims, rf) ==
    << [run |-> leftWidth(dims, rf), rise |-> roofRise(dims, rf),
        extra |-> Hundredths(30) + rf.overhangs.west, along |-> totalRoofLength(dims, rf)],
       [run |-> rightWidth(dims, rf), rise |-> roofRise(dims, rf),
        extra |-> Hundredths(30) + rf.overhangs.east, along |-> totalRoofLength(dims, rf)] >>

singleSlopeRoofPanels(dims, rf) ==
    << [run |-> dims.width + rf.overhangs.east + rf.overhangs.west,
        rise |-> roofRise(dims, rf),
        extra |-> Hundredths(50), along |-> totalRoofLength(dims, rf)] >>

roofPanels(dims, rf) ==
    CASE rf.style = "gable" -> gableRoofPanels(dims, rf)
      [] rf.style = "asymmetrical" -> asymmetricalRoofPanels(dims, rf)
      [] OTHER -> singleSlopeRoofPanels(dims, rf)

---------------------------------------------------------------------------
(* Specifications.  All start from the store's initial state and differ in *)
(* the handlers they exercise and the inputs they draw.                    *)

\* Placing one opening along a wall: the panel, the width slider and a
\* horizontal drag.
Next ==
    \/ \E p \in Pointers, i \in 1..Len(openings), x \in ClientXs :
           handlePointerDown(p, i, x, 0)
    \/ \E p \in Pointers, i \in 1..Len(openings), x \in ClientXs :
           handlePointerMove(p, i, x, 0)
    \/ \E p \in Pointers, i \in 1..Len(openings) : handlePointerUp(p, i)
    \/ \E p \in Pointers, i \in 1..Len(openings) : handlePointerLeave(p, i)
    \/ \E w \in WallChoices : setSelectedWall(w)
    \/ Len(openings) < MaxPlaced /\ \E k \in QuickAddChoices : handleQuickAdd(k)
    \/ \E i \in 1..Len(openings), w \in WallChoices : handleWallChange(i, w)
    \/ \E i \in 1..Len(openings) :
           \E v \in positionSliderValues(dimensions, openings[i]) : handlePositionChange(i, v)
    \/ \E i \in 1..Len(openings) : handleRemoveClick(i)
    \/ \E v \in RangeChoices : handleSliderRange("width", v)
    \/ \E v \in TypedChoices : handleSliderNumber("width", v)

Spec == Init /\ [][Next]_vars

\* Moving one opening up and down a wall of any eave height.
NextVertical ==
    \/ \E p \in Pointers, i \in 1..Len(openings), y \in ClientYs :
           handlePointerDown(p, i, 0, y)
    \/ \E p \in Pointers, i \in 1..Len(openings), y \in ClientYs :
           handlePointerMove(p, i, 0, y)
    \/ \E p \in Pointers, i \in 1..Len(openings) : handlePointerUp(p, i)
    \/ \E p \in Pointers, i \in 1..Len(openings) : handlePointerLeave(p, i)
    \/ Len(openings) < MaxPlaced /\ \E k \in QuickAddChoices : handleQuickAdd(k)
    \/ \E i \in 1..Len(openings) : handleRemoveClick(i)
    \/ \E v \in RangeChoices : handleSliderRange("eaveHeight", v)
    \/ \E v \in TypedChoices : handleSliderNumber("eaveHeight", v)

SpecVertical == Init /\ [][NextVertical]_vars

\* The drag state machine of several openings under several pointers,
\* interleaved with selection, removal and the visibility button.
NextDrag ==
    \/ \E p \in Pointers, i \in 1..Len(openings), x \in {0, 1}, y \in {0, 1} :
           handlePointerDown(p, i, x, y)
    \/ \E p \in Pointers, i \in 1..Len(openings) : handlePointerUp(p, i)
    \/ \E p \in Pointers, i \in 1..Len(openings) : handlePointerLeave(p, i)
    \/ Len(openings) < MaxOpenings /\ \E k \in QuickAddChoices : handleQuickAdd(k)
    \/ \E i \in 1..Len(openings) :
           \E v \in positionSliderValues(dimensions, openings[i]) : handlePositionChange(i, v)
    \/ \E i \in 1..Len(openings) : handleRemoveClick(i)
    \/ \E i \in 1..Len(openings) : handleSelectClick(i)
    \/ cycleVisibility
    \/ handleResetView
    \/ \E m \in PlacementModes : callSetPlacementMode(m)
    \/ Tick

SpecDrag == Init /\ [][NextDrag]_vars

\* The openings collection under the panel's add, update and remove.
NextStore ==
    \/ \E w \in WallChoices : setSelectedWall(w)
    \/ Len(openings) < MaxOpenings /\ \E k \in QuickAddChoices : handleQuickAdd(k)
    \/ \E i \in 1..Len(openings), w \in WallChoices : handleWallChange(i, w)
    \/ \E i \in 1..Len(openings) :
           \E v \in positionSliderValues(dimensions, openings[i]) : handlePositionChange(i, v)
    \/ \E i \in 1..Len(openings) : handleRemoveClick(i)
    \/ \E i \in 1..Len(openings) : handleSelectClick(i)
    \/ Tick

SpecStore == Init /\ [][NextStore]_vars

\* The scene under the visibility button and the panels that add frames.
LengthChoices == {20, 60}
OverhangChoices == {0, 2}

NextScene ==
    \/ cycleVisibility
    \/ handleResetView
    \/ \E style \in RoofStyles : handleRoofStyleChange(style)
    \/ \E side \in {"north", "south"}, v \in OverhangChoices : handleOverhangChange(side, v)
    \/ \E side \in WallSides, checked \in BOOLEAN : handleLeanToEnabledChange(side, checked)
    \/ \E v \in LengthChoices : handleSliderRange("length", v)

SpecScene == Init /\ [][NextScene]_vars

\* The secondary members under the visibility button, the wall enclosure
\* and the lean-to wall variant.
NextSecondary ==
    \/ cycleVisibility
    \/ \E style \in RoofStyles : handleRoofStyleChange(style)
    \/ \E side \in WallSides, checked \in BOOLEAN : handleWallEnclosedChange(side, checked)
    \/ \E side \in WallSides, checked \in BOOLEAN : handleLeanToEnabledChange(side, checked)
    \/ \E side \in WallSides, variant \in {"full-length", "open"} :
           handleLeanToWallsChange(side, variant)

SpecSecondary == Init /\ [][NextSecondary]_vars

\* The size of the lean-tos of an end wall and of a sidewall under their
\* sliders and the main building's.
LeanToSizeSides == {"south", "east"}
DropChoices == {1, 5}
DropTyped == {9}
DepthChoices == {12, 20}
LeanToPitchChoices == {3, 6}
CutChoices == {0, 20}
EaveChoices == {8, 10}
SpanChoices == {20, 40}

NextLeanToSize ==
    \/ \E side \in LeanToSizeSides, checked \in BOOLEAN : handleLeanToEnabledChange(side, checked)
    \/ \E side \in LeanToSizeSides, v \in DropChoices : handleLeanToSliderRange(side, "drop", v)
    \/ \E side \in LeanToSizeSides, v \in DropTyped : handleLeanToSliderNumber(side, "drop", v)
    \/ \E side \in LeanToSizeSides, v \in DepthChoices : handleLeanToSliderRange(side, "depth", v)
    \/ \E side \in LeanToSizeSides, v \in LeanToPitchChoices :
           handleLeanToSliderRange(side, "roofPitch", v)
    \/ \E side \in LeanToSizeSides, f \in {"cutL", "cutR"}, v \in CutChoices :
           handleLeanToSliderRange(side, f, v)
    \/ \E v \in EaveChoices : handleSliderRange("eaveHeight", v)
    \/ \E f \in {"width", "length"}, v \in SpanChoices : handleSliderRange(f, v)

SpecLeanToSize == Init /\ [][NextLeanToSize]_vars

\* The envelope of the four lean-tos under the visibility button and the
\* Walls dropdown.
NextEnvelope ==
    \/ cycleVisibility
    \/ \E side \in WallSides, checked \in BOOLEAN : handleLeanToEnabledChange(side, checked)
    \/ \E side \in WallSides, variant \in LeanToWallTypes :
           handleLeanToWallsChange(side, variant)

SpecEnvelope == Init /\ [][NextEnvelope]_vars

\* The wainscot bands under the wainscot and enclosed checkboxes, the
\* lean-tos and the visibility button.
NextWainscot ==
    \/ cycleVisibility
    \/ \E checked \in BOOLEAN : handleWainscotEnabledChange(checked)
    \/ \E side \in {"south", "west"}, checked \in BOOLEAN :
           handleWallEnclosedChange(side, checked)
    \/ \E side \in WallSides, checked \in BOOLEAN : handleLeanToEnabledChange(side, checked)
    \/ \E side \in WallSides, variant \in {"fully-enclosed", "open"} :
           handleLeanToWallsChange(side, variant)

SpecWainscot == Init /\ [][NextWainscot]_vars

\* The numeric fields under the range input and the number input of their
\* sliders; a cleared number input reads 0.
DimensionChoices == {20, 24}
DimensionTyped == {0, 10}
PitchHalves == {2, 7, 12}
PitchTypedHalves == {14}
LeanToPitchTyped == {0, 7}

NextInputs ==
    \/ \E f \in {"width", "length", "eaveHeight"}, v \in DimensionChoices :
           handleSliderRange(f, v)
    \/ \E f \in {"width", "length", "eaveHeight"}, v \in DimensionTyped :
           handleSliderNumber(f, v)
    \/ \E h \in PitchHalves : handleRoofPitchRange(h)
    \/ \E h \in PitchTypedHalves : handleRoofPitchNumber(h)
    \/ \E checked \in BOOLEAN : handleLeanToEnabledChange("south", checked)
    \/ \E v \in LeanToPitchChoices : handleLeanToSliderRange("south", "roofPitch", v)
    \/ \E v \in LeanToPitchTyped : handleLeanToSliderNumber("south", "roofPitch", v)

SpecInputs == Init /\ [][NextInputs]_vars

\* The configuration under one mutation entry point of each kind.
NextRoundTrip ==
    \/ Len(openings) < MaxOpenings /\ \E k \in QuickAddChoices : handleQuickAdd(k)
    \/ \E i \in 1..Len(openings) :
           \E v \in positionSliderValues(dimensions, openings[i]) : handlePositionChange(i, v)
    \/ \E i \in 1..Len(openings) : handleRemoveClick(i)
    \/ Tick
    \/ \E v \in DimensionChoices : handleSliderRange("length", v)
    \/ \E style \in RoofStyles : handleRoofStyleChange(style)
    \/ \E v \in OverhangChoices : handleOverhangChange("north", v)
    \/ \E checked \in BOOLEAN : handleWainscotEnabledChange(checked)
    \/ \E checked \in BOOLEAN : handleWallEnclosedChange("east", checked)
    \/ \E checked \in BOOLEAN : handleLeanToEnabledChange("west", checked)

SpecRoundTrip == Init /\ [][NextRoundTrip]_vars

\* The colour pickers beside the controls that decide which wall polygons
\* the scene holds.
ColorChoices == {"#5c4033", "#e8e4d9"}

NextColors ==
    \/ \E key \in ColorKeys, value \in ColorChoices : handleColorChange(key, value)
    \/ cycleVisibility
    \/ \E style \in RoofStyles : handleRoofStyleChange(style)
    \/ \E v \in DimensionChoices : handleSliderRange("width", v)
    \/ \E checked \in BOOLEAN : handleLeanToEnabledChange("south", checked)
    \/ \E variant \in LeanToWallTypes : handleLeanToWallsChange("south", variant)

SpecColors == Init /\ [][NextColors]_vars

\* The roof controls of the Dimensions panel at several building widths.
WidthChoices == {20, 40, 55, 100}
WidthTyped == {1}

NextRoofStyle ==
    \/ \E style \in RoofStyles : handleRoofStyleChange(style)
    \/ \E v \in rangeValues(1, 9, 1) : handleAsymmetricOffsetRange(v)
    \/ \E v \in WidthChoices : handleSliderRange("width", v)
    \/ \E v \in WidthTyped : handleSliderNumber("width", v)
    \/ \E halves \in PitchHalves : handleRoofPitchRange(halves)
    \/ \E v \in OverhangChoices : handleOverhangChange("west", v)

SpecRoofStyle == Init /\ [][NextRoofStyle]_vars

\* The building length over the range of its slider and typed, beside the
\* other dimensions.
FrameLengthChoices == {20, 26, 40, 50, 60, 100, 200}
FrameLengthTyped == {1, 25}

NextFrames ==
    \/ \E v \in FrameLengthChoices : handleSliderRange("length", v)
    \/ \E v \in FrameLengthTyped : handleSliderNumber("length", v)
    \/ \E v \in DimensionChoices : handleSliderRange("width", v)
    \/ \E style \in RoofStyles : handleRoofStyleChange(style)
    \/ cycleVisibility

SpecFrames == Init /\ [][NextFrames]_vars

\* Every quick-add button on every wall of buildings of several widths.
NextQuickAdd ==
    \/ \E w \in WallChoices : setSelectedWall(w)
    \/ Len(openings) < MaxPlaced /\ \E k \in 1..Len(DOOR_TYPES) : handleQuickAdd(k)
    \/ \E i \in 1..Len(openings) : handleRemoveClick(i)
    \/ \E v \in DimensionChoices : handleSliderRange("width", v)

SpecQuickAdd == Init /\ [][NextQuickAdd]_vars

\* Lean-tos on an end wall and on a sidewall under their panel controls,
\* the wainscot checkbox and the visibility button.
NextSides ==
    \/ \E side \in {"south", "west"}, checked \in BOOLEAN :
           handleLeanToEnabledChange(side, checked)
    \/ \E variant \in LeanToWallTypes : handleLeanToWallsChange("south", variant)
    \/ \E v \in DropChoices : handleLeanToSliderRange("south", "drop", v)
    \/ \E v \in DepthChoices : handleLeanToSliderRange("south", "depth", v)
    \/ \E v \in LeanToPitchChoices : handleLeanToSliderRange("south", "roofPitch", v)
    \/ \E v \in CutChoices : handleLeanToSliderRange("west", "cutL", v)
    \/ \E v \in EaveChoices : handleSliderRange("eaveHeight", v)
    \/ \E checked \in BOOLEAN : handleWainscotEnabledChange(checked)
    \/ cycleVisibility

SpecSides == Init /\ [][NextSides]_vars

\* The per-side controls: lean-to panels, enclosure checkboxes, overhang
\* sliders.
NextPerSide ==
    \/ \E side \in WallSides, checked \in BOOLEAN : handleLeanToEnabledChange(side, checked)
    \/ \E side \in {"south", "north"}, variant \in {"full-length", "open"} :
           handleLeanToWallsChange(side, variant)
    \/ \E v \in DepthChoices : handleLeanToSliderRange("east", "depth", v)
    \/ \E side \in WallSides, checked \in BOOLEAN : handleWallEnclosedChange(side, checked)
    \/ \E side \in {"north", "east"}, v \in OverhangChoices : handleOverhangChange(side, v)

SpecPerSide == Init /\ [][NextPerSide]_vars

\* Selection and placement mode: the list's select and remove buttons, a
\* pointer going down on a door, and the store's setPlacementMode.
NextSelection ==
    \/ Len(openings) < MaxOpenings /\ \E k \in QuickAddChoices : handleQuickAdd(k)
    \/ \E i \in 1..Len(openings) : handleSelectClick(i)
    \/ \E i \in 1..Len(openings) : handleRemoveClick(i)
    \/ \E m \in PlacementModes : callSetPlacementMode(m)
    \/ \E p \in Pointers, i \in 1..Len(openings) : handlePointerDown(p, i, 0, 0)
    \/ \E p \in Pointers, i \in 1..Len(openings) : handlePointerUp(p, i)
    \/ handleResetView
    \/ Tick

SpecSelection == Init /\ [][NextSelection]_vars

---------------------------------------------------------------------------
(* Properties *)

\* C1: every opening satisfies 0 <= position <= wallLength(wall) - width,
\* in every state reachable through quick-add, the panel's wall and position
\* controls, drag pointer-moves, removeOpening and setDimensions.
C1_PositionWithinWall ==
    \A i \in 1..Len(openings) :
        /\ 0 <= openings[i].position
        /\ openings[i].position <= getWallLength(dimensions, openings[i].wall) - openings[i].width

C3_FlagMatchesDrag ==
    ui.isDraggingDoor <=> (\E id \in renderedIds(openings, ui) : isDragging[id])

\* C4: the drag state of an opening changes only in a pointer-down
\* (Idle -> Dragging) or a pointer-up or pointer-leave (Dragging -> Idle) on
\* that opening, and going Idle clears the drag-start record.
C4_OnlyPointerEventsChangeDrag ==
    [][\A id \in OpeningIds :
          ((\E i \in 1..Len(openings) : openings[i].id = id)
             /\ (\E i \in 1..Len(openings') : openings'[i].id = id)
             /\ isDragging'[id] # isDragging[id])
          => /\ \E p \in Pointers, i \in 1..Len(openings) :
                   /\ openings[i].id = id
                   /\ IF isDragging'[id]
                      THEN \E x \in {0, 1}, y \in {0, 1} : handlePointerDown(p, i, x, y)
                      ELSE handlePointerUp(p, i) \/ handlePointerLeave(p, i)
             /\ ~isDragging'[id] => dragStartRef'[id] = Null]_vars

\* C5: at most one opening is in the Dragging state at any time.
C5_AtMostOneDragging ==
    Cardinality({id \in OpeningIds : isDragging[id]}) <= 1

\* C6: right after a pointer-down on opening o, o is the selected opening,
\* the placement mode is null, ui.isDraggingDoor is true, and the drag start
\* holds o's position and bottomOffset of that moment and the pointer's
\* coordinates.
C6_PointerDownRecordsStart ==
    [][\A p \in Pointers, i \in 1..Len(openings), x \in {0, 1}, y \in {0, 1} :
          handlePointerDown(p, i, x, y)
          => /\ ui'.selectedOpeningId = openings[i].id
             /\ ui'.placementMode = "null"
             /\ ui'.isDraggingDoor
             /\ dragStartRef'[openings[i].id] =
                   << [position |-> openings[i].position,
                       bottomOffset |-> openings[i].bottomOffset,
                       mouseX |-> x, mouseY |-> y] >>]_vars

\* C6 witness: an opening moved off centre is selected and dragged with the
\* start recorded at its position and at a pointer away from the origin.
C6_PointerDownHappened ==
    \E i \in 1..Len(openings) :
        LET o == openings[i] IN
        /\ isDragging[o.id]
        /\ ui.selectedOpeningId = o.id
        /\ ui.isDraggingDoor
        /\ ui.placementMode = "null"
        /\ dragStartRef[o.id] # Null
        /\ dragStartRef[o.id][1].position = o.position
        /\ o.position = 0
        /\ dragStartRef[o.id][1].bottomOffset = Ft(4)
        /\ dragStartRef[o.id][1].mouseX = 1
        /\ dragStartRef[o.id][1].mouseY = 1

\* C7: every window has 0 <= bottomOffset <= 14 - height, whatever the
\* eave height of the building.
C7_WindowOffsetInRange ==
    \A i \in 1..Len(openings) :
        openings[i].type \in {"window-slider", "window-hopper"}
        => /\ 0 <= openings[i].bottomOffset
           /\ openings[i].bottomOffset <= Ft(14) - openings[i].height

\* C7 witness: a window dragged up to 14 - height on a building whose eave
\* is lower than the window's top.
C7_WindowAtCeiling ==
    \E i \in 1..Len(openings) :
        LET o == openings[i] IN
        /\ o.type \in {"window-slider", "window-hopper"}
        /\ isDragging[o.id]
        /\ o.bottomOffset = Ft(14) - o.height
        /\ dragStartRef[o.id] # Null
        /\ dragStartRef[o.id][1].bottomOffset # o.bottomOffset
        /\ dimensions.eaveHeight < o.bottomOffset + o.height

\* C8: the openings of the collection have pairwise distinct ids.
C8_DistinctIds ==
    \A i, j \in 1..Len(openings) : i # j => openings[i].id # openings[j].id

\* C9: the layer flags of each of the four visibility modes are
\* showWalls = (mode = full), showRoof = (mode = full or hide-walls),
\* showSecondaryMembers = (mode /= frame-only).
C9_FlagsOfMode ==
    LET mode == ui.visibilityMode IN
    <<showWalls(mode), showRoof(mode), showSecondaryMembers(mode)>> =
        CASE mode = "full" -> <<TRUE, TRUE, TRUE>>
          [] mode = "hide-walls" -> <<FALSE, TRUE, TRUE>>
          [] mode = "hide-roof" -> <<FALSE, FALSE, TRUE>>
          [] mode = "frame-only" -> <<FALSE, FALSE, FALSE>>

\* C9 witness: the hide-walls mode, with the roof shown and the walls hidden.
C9_WallsHiddenRoofShown ==
    /\ ui.visibilityMode = "hide-walls"
    /\ Building(dimensions, roof, leanToConfigs, ui).roofPanels
    /\ ~Building(dimensions, roof, leanToConfigs, ui).wallPanels

\* C10: in every visibility mode the scene holds all numFrames main frames,
\* each with its columns, eave beam, knee braces and rafters, the north and
\* south overhang frames whenever that overhang is > 0, and the three frames
\* (outer column and rafter) of every enabled lean-to.
C10_PrimaryFramesEmitted ==
    LET scene == Building(dimensions, roof, leanToConfigs, ui)
        whole(f) == /\ f.columns = 2 /\ f.eaveBeam = 1
                    /\ f.kneeBraces = 2 /\ f.rafters >= 1
    IN  /\ Len(scene.mainFrames) = numFrames(dimensions)
        /\ Len(scene.mainFrames) >= 2
        /\ \A i \in 1..Len(scene.mainFrames) : whole(scene.mainFrames[i])
        /\ roof.overhangs.north > 0
              => Len(scene.northOverhangFrame) = 1 /\ whole(scene.northOverhangFrame[1])
        /\ roof.overhangs.south > 0
              => Len(scene.southOverhangFrame) = 1 /\ whole(scene.southOverhangFrame[1])
        /\ \A s \in WallSides :
              leanToConfigs[s].enabled
              => /\ Len(scene.leanToFrames[s]) = 3
                 /\ \A i \in 1..3 : /\ scene.leanToFrames[s][i].columns = 1
                                    /\ scene.leanToFrames[s][i].rafters = 1

\* C10 witness: frame-only mode on a four-frame building with both end
\* overhangs and all four lean-tos; the secondary members, walls and roof
\* are hidden.
C10_FrameOnlyFullyFramed ==
    LET scene == Building(dimensions, roof, leanToConfigs, ui) IN
    /\ ui.visibilityMode = "frame-only"
    /\ Len(scene.mainFrames) = 4
    /\ roof.overhangs.north > 0
    /\ roof.overhangs.south > 0
    /\ \A s \in WallSides : leanToConfigs[s].enabled
    /\ ~scene.girts /\ ~scene.purlins /\ ~scene.wallPanels /\ ~scene.roofPanels

\* C11: purlins and girts are shown exactly when the visibility mode is not
\* frame-only: the girts of every enclosed main wall, the purlins of the
\* main roof, and the purlins and (for variants with a front wall) the
\* girts of every enabled lean-to.
C11_SecondaryShownUnlessFrameOnly ==
    LET mode == ui.visibilityMode
        shown == mode # "frame-only"
    IN  /\ \A side \in WallSides :
               walls.enclosed[side]
               => (mainWallGirts(dimensions, roof, walls, mode, side) > 0 <=> shown)
        /\ (mainPurlins(dimensions, roof, mode).left > 0 <=> shown)
        /\ \A side \in WallSides :
               leanToConfigs[side].enabled
               => /\ leanToPurlinCount(leanToConfigs, side, mode) > 0 <=> shown
                  /\ leanToConfigs[side].walls \in {"full-length", "fully-enclosed"}
                        => (leanToFrontGirts(dimensions, leanToConfigs, side, mode) > 0
                              <=> shown)

\* C12: on every side and for every configuration the lean-to has
\* attachHeight = eaveHeight - drop, leanToRoofRise = depth * roofPitch / 12
\* and outerHeight = max(1, attachHeight - leanToRoofRise), so outerHeight
\* >= 1; depth 12, roofPitch 3, drop 1, eaveHeight 10 give 9, 3 and 6.
C12_LeanToDerivedValues ==
    \A side \in WallSides :
        LET cfg == leanToConfigs[side]
            attach == attachHeight(dimensions, cfg)
            rise == leanToRoofRise(cfg)
            outer == outerHeight(dimensions, cfg)
        IN  /\ attach + cfg.drop = dimensions.eaveHeight
            /\ 24 * rise = cfg.depth * HalfUnits(cfg.roofPitch)
            /\ outer >= Ft(1)
            /\ outer \in {Ft(1), attach - rise}
            /\ outer >= attach - rise
            /\ (/\ cfg.depth = Ft(12) /\ cfg.roofPitch = Ft(3) /\ cfg.drop = Ft(1)
                /\ dimensions.eaveHeight = Ft(10))
               => attach = Ft(9) /\ rise = Ft(3) /\ outer = Ft(6)

\* C12 witness: an enabled lean-to whose rise exceeds its attach height, so
\* that the outer height is floored at 1.
C12_OuterHeightFloored ==
    \E side \in WallSides :
        LET cfg == leanToConfigs[side] IN
        /\ cfg.enabled
        /\ cfg.drop = Ft(9) /\ cfg.depth = Ft(20) /\ cfg.roofPitch = Ft(6)
        /\ dimensions.eaveHeight = Ft(8)
        /\ attachHeight(dimensions, cfg) - leanToRoofRise(cfg) < 0
        /\ outerHeight(dimensions, cfg) = Ft(1)

\* C13: the span of each enabled lean-to is its wall's dimension minus cutL
\* and cutR and stays usable: it is positive and the three frame positions
\* are in increasing order and lie within the span.
C13_LeanToSpanUsable ==
    \A side \in WallSides :
        leanToConfigs[side].enabled
        => LET span == leanToSpan(dimensions, leanToConfigs, side)
               pos(i) == leanToFramePos(dimensions, leanToConfigs, side, i)
           IN  /\ span = getWallLength(dimensions, side)
                           - leanToConfigs[side].cutL - leanToConfigs[side].cutR
               /\ span > 0
               /\ pos(0) < pos(1) /\ pos(1) < pos(2)
               /\ \A i \in 0..2 : 2 * pos(i) >= 0 - span /\ 2 * pos(i) <= span

\* C14: for an enabled lean-to in mode full, on every side, the variant
\* alone selects the envelope: front wall iff full-length or fully-enclosed,
\* trapezoid end walls iff fully-enclosed or gable-walls-only, triangular
\* infill iff gable-dress, apron iff 2ft-apron, the roof panel always, and
\* for variant open no wall panel and no trim.
C14_VariantSelectsEnvelope ==
    ui.visibilityMode = "full"
    => \A side \in WallSides :
           leanToConfigs[side].enabled
           => LET variant == leanToConfigs[side].walls
                  mode == ui.visibilityMode
                  front == leanToFrontWall(leanToConfigs, side, mode)
                  ends == leanToSideWalls(leanToConfigs, side, mode)
                  dress == leanToGableDress(leanToConfigs, side, mode)
                  apron == leanToApron(leanToConfigs, side, mode)
                  trim == leanToTrim(leanToConfigs, side, mode)
              IN  /\ front = (IF variant \in {"full-length", "fully-enclosed"} THEN 1 ELSE 0)
                  /\ ends = (IF variant \in {"fully-enclosed", "gable-walls-only"} THEN 2 ELSE 0)
                  /\ dress = (IF variant = "gable-dress" THEN 2 ELSE 0)
                  /\ apron = (IF variant = "2ft-apron" THEN 1 ELSE 0)
                  /\ leanToRoofPanel(leanToConfigs, side, mode) = 1
                  /\ variant = "open" => front + ends + dress + apron + trim = 0
                  /\ variant # "open" => trim > 0

\* C14 witness: in mode full, a fully-enclosed lean-to with front and end
\* walls next to an open one with a roof only.
C14_EnclosedBesideOpen ==
    /\ ui.visibilityMode = "full"
    /\ \E a, b \in WallSides :
          /\ leanToConfigs[a].enabled /\ leanToConfigs[a].walls = "fully-enclosed"
          /\ leanToFrontWall(leanToConfigs, a, "full") = 1
          /\ leanToSideWalls(leanToConfigs, a, "full") = 2
          /\ leanToConfigs[b].enabled /\ leanToConfigs[b].walls = "open"
          /\ leanToRoofPanel(leanToConfigs, b, "full") = 1
          /\ leanToTrim(leanToConfigs, b, "full") = 0

\* C15 as claimed: on a side whose lean-to is enabled no wainscot band at
\* all is emitted, for any wainscotEnabled, enclosed flags, variant or mode.
C15_NoWainscotOnLeanToSide ==
    \A side \in WallSides :
        leanToConfigs[side].enabled
        => /\ mainWainscot(walls, leanToConfigs, side, ui.visibilityMode) = 0
           /\ leanToFrontWainscot(walls, leanToConfigs, side, ui.visibilityMode) = 0
           /\ leanToSideWainscots(walls, leanToConfigs, side, ui.visibilityMode) = 0

\* C15 as amended: on a side whose lean-to is enabled the main wall's
\* wainscot band is never emitted; the only wainscot bands of that side are
\* the lean-to's own, emitted exactly in mode full with wainscotEnabled on
\* the walls its variant has (front: full-length, fully-enclosed; ends:
\* fully-enclosed, gable-walls-only).
C15_MainWainscotSuppressedUnderLeanTo ==
    \A side \in WallSides :
        leanToConfigs[side].enabled
        => LET variant == leanToConfigs[side].walls
               on == ui.visibilityMode = "full" /\ walls.wainscotEnabled
           IN  /\ mainWainscot(walls, leanToConfigs, side, ui.visibilityMode) = 0
               /\ leanToFrontWainscot(walls, leanToConfigs, side, ui.visibilityMode) > 0
                     <=> (on /\ variant \in {"full-length", "fully-enclosed"})
               /\ leanToSideWainscots(walls, leanToConfigs, side, ui.visibilityMode) > 0
                     <=> (on /\ variant \in {"fully-enclosed", "gable-walls-only"})

\* C15 witness: wainscot on, mode full, an enclosed wall with a
\* fully-enclosed lean-to: the lean-to carries wainscot, and an enclosed
\* wall without a lean-to carries the main band.
C15_LeanToCarriesWainscot ==
    /\ ui.visibilityMode = "full"
    /\ walls.wainscotEnabled
    /\ \E a, b \in WallSides :
          /\ walls.enclosed[a] /\ leanToConfigs[a].enabled
          /\ leanToConfigs[a].walls = "fully-enclosed"
          /\ mainWainscot(walls, leanToConfigs, a, "full") = 0
          /\ leanToFrontWainscot(walls, leanToConfigs, a, "full") = 1
          /\ leanToSideWainscots(walls, leanToConfigs, a, "full") = 2
          /\ ~leanToConfigs[b].enabled
          /\ mainWainscot(walls, leanToConfigs, b, "full") = 1

\* C16: width, length and eaveHeight are > 0 and roof.pitch and the
\* roofPitch of every lean-to lie in [1, 6].
C16_NumericFieldsInRange ==
    /\ dimensions.width > 0 /\ dimensions.length > 0 /\ dimensions.eaveHeight > 0
    /\ Ft(1) <= roof.pitch /\ roof.pitch <= Ft(6)
    /\ \A side \in WallSides :
          /\ Ft(1) <= leanToConfigs[side].roofPitch
          /\ leanToConfigs[side].roofPitch <= Ft(6)

\* C17: every configuration mutation followed by its inverse (the changed
\* fields set back to their prior values, or removeOpening of the added
\* id) restores the configuration it started from.
C17_InverseRestoresConfiguration ==
    [][LET prior(new, old) == [k \in {f \in DOMAIN old : new[f] # old[f]} |-> old[k]]
       IN  /\ dimensions' # dimensions
                => setDimensions(dimensions', prior(dimensions', dimensions)) = dimensions
           /\ roof' # roof
                => \/ setRoof(roof', prior(roof', roof)) = roof
                   \/ \E side \in WallSides :
                         setRoofOverhang(roof', side, roof.overhangs[side]) = roof
           /\ walls' # walls
                => \/ setWalls(walls', prior(walls', walls)) = walls
                   \/ \E side \in WallSides :
                         setWallEnclosed(walls', side, walls.enclosed[side]) = walls
           /\ leanToConfigs' # leanToConfigs
                => \E side \in WallSides :
                      setLeanToConfig(leanToConfigs', side,
                                      prior(leanToConfigs'[side], leanToConfigs[side]))
                         = leanToConfigs
           /\ Len(openings') = Len(openings) + 1
                => removeOpening(openings', openings'[Len(openings')].id) = openings
           /\ (Len(openings') = Len(openings) /\ openings' # openings)
                => \E i \in 1..Len(openings) :
                      /\ openings'[i] # openings[i]
                      /\ updateOpening(openings', openings[i].id,
                                       prior(openings'[i], openings[i])) = openings]_vars

\* C18: a step that changes a colour leaves every geometric input
\* (dimensions, roof, walls, lean-to configurations, openings) unchanged
\* and the render that follows it constructs no wall polygon geometry.
C18_ColorChangeRebuildsNoGeometry ==
    [][colors' # colors =>
         /\ UNCHANGED <<dimensions, roof, walls, leanToConfigs, openings>>
         /\ geometriesRebuilt(dimensions, roof, dimensions', roof', leanToConfigs',
                              ui'.visibilityMode) = {}]_vars

\* C19: with style asymmetrical and asymmetricOffset 5 the end-wall
\* polygon, the rafters, the purlin counts per side and the roof panels
\* are those of style gable at the same dimensions, pitch and overhangs.
C19_AsymmetricalAtFiveIsGable ==
    (roof.style = "asymmetrical" /\ roof.asymmetricOffset = 5) =>
        LET gable == [roof EXCEPT !.style = "gable"]
        IN  /\ endWallGeometry(dimensions, roof) = endWallGeometry(dimensions, gable)
            /\ rafters(dimensions, roof) = rafters(dimensions, gable)
            /\ mainPurlins(dimensions, roof, ui.visibilityMode)
                   = mainPurlins(dimensions, gable, ui.visibilityMode)
            /\ roofPanels(dimensions, roof) = roofPanels(dimensions, gable)

\* C20: for a positive width, asymmetricOffset 5 gives peakOffset 0 and
\* leftWidth = rightWidth = width / 2; for every asymmetricOffset in 1..9
\* peakOffset is ((offset - 5) / 5) * (width / 2) * 0.8, leftWidth and
\* rightWidth add up to width, and both are strictly positive.
C20_PeakOffsetSplitsWidth ==
    dimensions.width > 0 =>
        LET offset == roof.asymmetricOffset
            left == leftWidth(dimensions, roof)
            right == rightWidth(dimensions, roof)
        IN  /\ offset = 5 =>
                  /\ peakOffset(dimensions, roof) = 0
                  /\ left = right
                  /\ 2 * left = dimensions.width
            /\ offset \in 1..9 =>
                  /\ 25 * peakOffset(dimensions, roof) = 2 * (offset - 5) * dimensions.width
                  /\ left + right = dimensions.width
                  /\ left > 0
                  /\ right > 0

\* the peak moved to the far right of the widest building
C20_PeakAtFarRight ==
    /\ roof.style = "asymmetrical"
    /\ roof.asymmetricOffset = 9
    /\ dimensions.width = Ft(100)
    /\ leftWidth(dimensions, roof) = Ft(82)
    /\ rightWidth(dimensions, roof) = Ft(18)

\* C21: for a positive length numFrames is max(2, ceil(length / 25) + 1),
\* that is 2 up to 25 ft and otherwise the n with (n - 2) * 25 < length <=
\* (n - 1) * 25, and frameSpacing * (numFrames - 1) is the length; length
\* 40 gives 3 frames 20 ft apart.
C21_FrameCountAndSpacing ==
    dimensions.length > 0 =>
        LET n == numFrames(dimensions)
            len == dimensions.length
        IN  /\ n >= 2
            /\ (n = 2) <=> (len <= Ft(25))
            /\ n > 2 => ((n - 2) * Ft(25) < len /\ len <= (n - 1) * Ft(25))
            /\ frameSpacing(dimensions) * (n - 1) = len
            /\ len = Ft(40) => (n = 3 /\ frameSpacing(dimensions) = Ft(20))

\* the longest building of the length slider: nine frames 25 ft apart
C21_LongestBuilding ==
    /\ dimensions.length = Ft(200)
    /\ numFrames(dimensions) = 9
    /\ frameSpacing(dimensions) = Ft(25)

\* C22: a step that adds an opening by quick-add appends one that is on
\* the selected wall, centred on it (position = wallLength / 2 - width /
\* 2), 4 ft up for a window and on the ground for a door, with its type's
\* default width and height; a 3 ft opening on a 30 ft wall is at 13.5.
C22_QuickAddCentresOpening ==
    [][Len(openings') = Len(openings) + 1 =>
         LET o == openings'[Len(openings')]
             wallLength == getWallLength(dimensions, selectedWall)
         IN  /\ o.wall = selectedWall
             /\ 2 * o.position = wallLength - o.width
             /\ \E k \in 1..Len(DOOR_TYPES) :
                   /\ DOOR_TYPES[k].type = o.type
                   /\ o.width = Ft(DOOR_TYPES[k].defaultWidth)
                   /\ o.height = Hundredths(DOOR_TYPES[k].defaultHeight)
                   /\ o.bottomOffset = IF DOOR_TYPES[k].category = "window" THEN Ft(4) ELSE 0
             /\ (wallLength = Ft(30) /\ o.width = Ft(3)) => o.position = Hundredths(1350)]_vars

\* a window quick-added on the 40 ft east wall
C22_WindowOnEastWall ==
    /\ Len(openings) = 1
    /\ openings[1].type = "window-hopper"
    /\ openings[1].wall = "east"
    /\ openings[1].position = Hundredths(1850)
    /\ openings[1].bottomOffset = Ft(4)

\* C23: for the configuration of any enabled lean-to and either main
\* dimension, the south, north, west and east blocks derive the same span,
\* attach height, roof rise, outer height, slope, frame count and frame
\* offsets, purlin and girt counts and element roles; they differ only in
\* the axis of the span and in the signs of the offset and of the purlin
\* direction.
C23_LeanToBlocksAgree ==
    \A side \in WallSides : \A main \in {dimensions.width, dimensions.length} :
        leanToConfigs[side].enabled =>
            LET cfg == leanToConfigs[side]
                mode == ui.visibilityMode
                alongWidth == [dimensions EXCEPT !.width = main]
                alongLength == [dimensions EXCEPT !.length = main]
                s == southLeanTo(alongWidth, cfg, walls, mode)
                n == northLeanTo(alongWidth, cfg, walls, mode)
                w == westLeanTo(alongLength, cfg, walls, mode)
                e == eastLeanTo(alongLength, cfg, walls, mode)
                derived(b) == [f \in DOMAIN b \ {"axis", "offset", "purlinSign"} |-> b[f]]
            IN  /\ derived(s) = derived(n)
                /\ derived(n) = derived(w)
                /\ derived(w) = derived(e)
                /\ s.offset = -n.offset /\ w.offset = -e.offset /\ s.offset = w.offset
                /\ s.purlinSign = -n.purlinSign /\ w.purlinSign = -e.purlinSign

\* a fully enclosed lean-to with wainscot whose outer height sits on its
\* floor of 1 ft
C23_FlooredEnclosedLeanTo ==
    /\ leanToConfigs.south.enabled
    /\ leanToConfigs.south.walls = "fully-enclosed"
    /\ walls.wainscotEnabled
    /\ ui.visibilityMode = "full"
    /\ attachHeight(dimensions, leanToConfigs.south) - leanToRoofRise(leanToConfigs.south) < Ft(1)
    /\ westLeanTo(dimensions, leanToConfigs.south, walls, ui.visibilityMode).outerHeight = Ft(1)

\* C24: for every enabled lean-to the vertical extent of the rafter and of
\* the roof panel is attachHeight - outerHeight, also where outerHeight
\* sits on its floor of 1 ft.
C24_RafterSpansAttachToOuter ==
    \A side \in WallSides :
        leanToConfigs[side].enabled =>
            LET cfg == leanToConfigs[side]
                extent == attachHeight(dimensions, cfg) - outerHeight(dimensions, cfg)
            IN  /\ leanToRafter(dimensions, cfg).rise = extent
                /\ leanToRoofSlope(dimensions, cfg).rise = extent

\* C25: a step that changes a lean-to configuration changes one field of
\* one side's configuration, as setLeanToConfig of that field does, and
\* nothing else in the store; a step that changes the wall enclosure
\* changes one side's entry and nothing else; a step that changes the roof
\* overhangs changes one side's entry and nothing else.
C25_PerSideSettersIndependent ==
    [][/\ leanToConfigs' # leanToConfigs =>
            /\ \E side \in WallSides : \E f \in DOMAIN leanToConfigs[side] :
                  /\ leanToConfigs' = setLeanToConfig(leanToConfigs, side,
                                         [k \in {f} |-> leanToConfigs'[side][k]])
                  /\ \A s \in WallSides : \A k \in DOMAIN leanToConfigs[s] :
                        (s # side \/ k # f) => leanToConfigs'[s][k] = leanToConfigs[s][k]
            /\ UNCHANGED <<dimensions, roof, walls, colors, openings, ui>>
       /\ walls'.enclosed # walls.enclosed =>
            /\ \E side \in WallSides :
                  /\ walls' = setWallEnclosed(walls, side, walls'.enclosed[side])
                  /\ \A s \in WallSides \ {side} : walls'.enclosed[s] = walls.enclosed[s]
            /\ walls'.wainscotEnabled = walls.wainscotEnabled
            /\ walls'.wainscotHeight = walls.wainscotHeight
            /\ UNCHANGED <<dimensions, roof, leanToConfigs, colors, openings, ui>>
       /\ roof'.overhangs # roof.overhangs =>
            /\ \E side \in WallSides :
                  /\ roof' = setRoofOverhang(roof, side, roof'.overhangs[side])
                  /\ \A s \in WallSides \ {side} : roof'.overhangs[s] = roof.overhangs[s]
            /\ \A k \in DOMAIN roof \ {"overhangs"} : roof'[k] = roof[k]
            /\ UNCHANGED <<dimensions, walls, leanToConfigs, colors, openings, ui>>]_vars

\* one side of each kind set apart from the other three
C25_OneSideOfEachChanged ==
    /\ leanToConfigs.south.enabled /\ leanToConfigs.south.walls = "open"
    /\ \A s \in WallSides \ {"south"} : ~leanToConfigs[s].enabled
    /\ ~walls.enclosed.east
    /\ \A s \in WallSides \ {"east"} : walls.enclosed[s]
    /\ roof.overhangs = [north |-> Ft(2), south |-> 0, east |-> Ft(1), west |-> Ft(1)]

\* C26: before and after every step at most one of ui.placementMode and
\* ui.selectedOpeningId is non-null, and a step that changes either field
\* leaves the two as setPlacementMode (selection cleared) or
\* setSelectedOpeningId (placement mode cleared) leaves them.
C26_PlacementExcludesSelection ==
    [][LET both(u) == <<u.placementMode, u.selectedOpeningId>>
       IN  /\ ui.placementMode = "null" \/ ui.selectedOpeningId = Null
           /\ ui'.placementMode = "null" \/ ui'.selectedOpeningId = Null
           /\ both(ui') # both(ui) =>
                 \/ /\ ui'.selectedOpeningId = Null
                    /\ both(ui') = both(setPlacementMode(ui, ui'.placementMode))
                 \/ /\ ui'.placementMode = "null"
                    /\ both(ui') = both(setSelectedOpeningId(ui, ui'.selectedOpeningId))]_vars

\* a placement mode entered while a door pressed (and thereby selected) is
\* still held: the selection is gone, the dragging flag is not
C26_PlacingBesideOpenings ==
    /\ Len(openings) = 2
    /\ ui.isDraggingDoor
    /\ ui.placementMode = "walk-single"
    /\ ui.selectedOpeningId = Null

\* C27: ui.selectedOpeningId is null or the id of an opening in the
\* collection.
C27_SelectionIsAnOpening ==
    \/ ui.selectedOpeningId = Null
    \/ \E i \in 1..Len(openings) : openings[i].id = ui.selectedOpeningId

\* C28: a pointer-move on an opening that is dragging leaves its position
\* at clamp(start.position +/- (x - start.mouseX) * 2 * wallLength /
\* viewportWidth, 0, max(0, wallLength - width)), minus on the north and
\* west walls, whatever moves came before; at the start x a start position
\* within the bounds is restored.
C28_DragPositionFromStartAndPointer ==
    [][\A p \in Pointers : \A i \in 1..Len(openings) : \A x \in ClientXs :
          (/\ handlePointerMove(p, i, x, 0)
           /\ isDragging[openings[i].id]
           /\ dragStartRef[openings[i].id] # Null)
          => LET o == openings[i]
                 start == dragStartRef[o.id][1]
                 wallLength == IF o.wall \in {"south", "north"}
                               THEN dimensions.width ELSE dimensions.length
                 moved == ((x - start.mouseX) * 2 * wallLength) \div ViewportWidth
                 target == IF o.wall \in {"north", "west"}
                           THEN start.position - moved ELSE start.position + moved
                 far == IF wallLength - o.width > 0 THEN wallLength - o.width ELSE 0
                 clamped == IF target < 0 THEN 0 ELSE IF target > far THEN far ELSE target
             IN  /\ openings'[i].position = clamped
                 /\ (x = start.mouseX /\ 0 <= start.position /\ start.position <= far)
                       => openings'[i].position = start.position]_vars

\* an opening on the north wall held by a drag that has carried it towards
\* the wall's start without reaching it
C28_DraggedAlongNorthWall ==
    \E i \in 1..Len(openings) :
        LET o == openings[i] IN
        /\ o.wall = "north"
        /\ isDragging[o.id]
        /\ dragStartRef[o.id] # Null
        /\ 0 < o.position
        /\ o.position < dragStartRef[o.id][1].position

\* the Sidebar's view controls and accordion, beside an opening that can be
\* added and selected
NextSidebar ==
    \/ cycleVisibility
    \/ handleViewModeClick
    \/ handleResetView
    \/ \E id \in PanelIds : handlePanelToggle(id)
    \/ Len(openings) < 1 /\ \E k \in QuickAddChoices : handleQuickAdd(k)
    \/ \E i \in 1..Len(openings) : handleSelectClick(i)
    \/ \E i \in 1..Len(openings) : handleRemoveClick(i)

SpecSidebar == Init /\ [][NextSidebar]_vars

\* C29: wherever a lean-to shows its 2 ft apron, the apron panel has its
\* top at outerHeight and its bottom, outerHeight - 2, at or above the
\* ground.
C29_ApronAboveGround ==
    \A side \in WallSides :
        leanToApron(leanToConfigs, side, ui.visibilityMode) > 0 =>
            LET apron == leanToApronPanel(dimensions, leanToConfigs[side])
            IN  /\ apron.top = outerHeight(dimensions, leanToConfigs[side])
                /\ apron.bottom = outerHeight(dimensions, leanToConfigs[side]) - Ft(2)
                /\ apron.bottom >= 0

\* C30: a press of the visibility button moves visibilityMode one step along
\* full -> hide-walls -> hide-roof -> frame-only -> full and changes no other
\* ui field; three more presses bring the mode back, and the four presses
\* pass through every mode.
C30_VisibilityCycles ==
    [][cycleVisibility =>
          LET after == [m \in VisibilityModes |->
                           CASE m = "full" -> "hide-walls"
                             [] m = "hide-walls" -> "hide-roof"
                             [] m = "hide-roof" -> "frame-only"
                             [] m = "frame-only" -> "full"]
              second == nextVisibilityMode(ui'.visibilityMode)
              third == nextVisibilityMode(second)
              fourth == nextVisibilityMode(third)
          IN  /\ ui' = [ui EXCEPT !.visibilityMode = after[ui.visibilityMode]]
              /\ second = after[ui'.visibilityMode]
              /\ third = after[second]
              /\ fourth = after[third]
              /\ fourth = ui.visibilityMode
              /\ {ui'.visibilityMode, second, third, fourth} = VisibilityModes]_vars

\* three presses from the initial mode, with every other ui field away from
\* its initial value
C30_ThreePressesKeepOtherFields ==
    /\ ui.visibilityMode = "frame-only"
    /\ ui.viewMode = "interior"
    /\ ui.expandedPanel = "lean-tos"
    /\ ui.selectedOpeningId # Null

=============================================================================
